---- MODULE Spec2Model ----
(***************************************************************************)
(* A model of the MIR interpreter of src/src/interpreter.rs: the virtual   *)
(* memory, the type-layout computer, the call-frame stack and the main     *)
(* loop `run`, executed on a small family of MIR bodies.                   *)
(***************************************************************************)
EXTENDS Integers, Sequences, FiniteSets, TLC

(***************************************************************************)
(* Bounds of the model.                                                    *)
(***************************************************************************)
\* Integral literals of the interpreted bodies are drawn from 0..MaxInput.
MaxInput == 2
\* The call stack never grows beyond MaxStack frames (guard of the pushes).
MaxStack == 5

(***************************************************************************)
(* Types (rustc's ty::Ty, after type checking).  Widths are in bytes.      *)
(***************************************************************************)
TBool == [k |-> "bool"]
TUint(w) == [k |-> "uint", w |-> w]
TInt(w) == [k |-> "int", w |-> w]
TUsize == [k |-> "usize"]
TIsize == [k |-> "isize"]
TTuple(fields) == [k |-> "tuple", fields |-> fields]
TAdt(variants) == [k |-> "adt", variants |-> variants]
TArray(elem, n) == [k |-> "array", elem |-> elem, len |-> n]
TSlice(elem) == [k |-> "slice", elem |-> elem]
TRef(ty) == [k |-> "ref", ty |-> ty]
TClosure(upvars) == [k |-> "closure", upvars |-> upvars]
TParam(i) == [k |-> "param", idx |-> i]
TFloat == [k |-> "float"]
TUnit == TTuple(<<>>)

\* Option<T>: None is the empty sequence, Some(x) the one-element sequence.
None == <<>>
Some(x) == <<x>>
IsSome(o) == Len(o) = 1
Unwrap(o) == o[1]

\* let v = e; F(v)
Let(v, F(_)) == F(v)

\* Substs: the optional Self type and the function-space type parameters.
Substs(self_ty, types) == [self_ty |-> self_ty, types |-> types]
EmptySubsts == Substs(None, <<>>)

RECURSIVE SubstTy(_, _)
\* ty.subst(tcx, substs): every type parameter replaced by its argument.
SubstTy(ty, substs) ==
    CASE ty.k = "param" ->
            IF ty.idx + 1 <= Len(substs.types) THEN substs.types[ty.idx + 1] ELSE ty
      [] ty.k = "tuple" ->
            TTuple([i \in 1..Len(ty.fields) |-> SubstTy(ty.fields[i], substs)])
      [] ty.k = "closure" ->
            TClosure([i \in 1..Len(ty.upvars) |-> SubstTy(ty.upvars[i], substs)])
      [] ty.k = "adt" ->
            TAdt([v \in 1..Len(ty.variants) |->
                    [i \in 1..Len(ty.variants[v]) |-> SubstTy(ty.variants[v][i], substs)]])
      [] ty.k = "array" -> TArray(SubstTy(ty.elem, substs), ty.len)
      [] ty.k = "slice" -> TSlice(SubstTy(ty.elem, substs))
      [] ty.k = "ref" -> TRef(SubstTy(ty.ty, substs))
      [] OTHER -> ty

\* ty.is_sized(..): slices are the unsized types of the model.
IsSized(ty) == ty.k # "slice"

(***************************************************************************)
(* Repr: the in-memory representation of a type.                           *)
(***************************************************************************)
\* Memory::pointer_size: the width in bytes of a pointer of the target.
VARIABLE pointer_size

\* The pointer widths of the targets: 32 and 64 bits.
PointerSizes == {4, 8}

\* The width Memory::new() sets.
HostPointerSize == 8

\* Whether the build checks integer arithmetic for overflow and panics on it
\* (a debug build) or wraps (a release build).
VARIABLE overflow_checks

POINTER_SIZE == pointer_size

ReprPrimitive(size) == [k |-> "Primitive", size |-> size]
ReprAggregate(discr_size, size, variants) ==
    [k |-> "Aggregate", discr_size |-> discr_size, size |-> size, variants |-> variants]
ReprArray(elem_size, length) ==
    [k |-> "Array", elem_size |-> elem_size, length |-> length]
\* A type the interpreter has no representation for (ty_to_repr panics).
ReprPanic == [k |-> "Panic"]

FieldRepr(offset, size) == [offset |-> offset, size |-> size]

\* Repr::size()
ReprSize(repr) ==
    CASE repr.k = "Primitive" -> repr.size
      [] repr.k = "Aggregate" -> repr.size
      [] repr.k = "Array" -> repr.elem_size * repr.length
      [] OTHER -> 0

RECURSIVE SumSeq(_)
SumSeq(s) == IF s = <<>> THEN 0 ELSE Head(s) + SumSeq(Tail(s))

\* The greatest element of s, 0 for the empty sequence (sizes are >= 0).
MaxSeq(s) ==
    LET sizes == {s[i] : i \in 1..Len(s)} \cup {0}
    IN  CHOOSE m \in sizes : \A x \in sizes : x <= m

\* discr_size_of with the mutation that makes every threshold exclusive.
discr_size_of_Exclusive(n) ==
    CASE n < 1 -> 0
      [] n >= 1 /\ n < 256 -> 1
      [] n >= 256 /\ n < 65536 -> 2
      [] OTHER -> 4

\* The discriminant width chosen for n variants.
discr_size_of(n) ==
    CASE n <= 1 -> 0
      [] n > 1 /\ n <= 256 -> 1
      [] n > 256 /\ n <= 65536 -> 2
      [] n > 65536 /\ (n - 1) \div 65536 <= 65535 -> 4
      [] OTHER -> 8

\* variant_fields with the mutation that adds a field's size before taking
\* its offset.
variant_fields_OffsetAfter(sizes) ==
    [i \in 1..Len(sizes) |-> FieldRepr(SumSeq(SubSeq(sizes, 1, i)), sizes[i])]

\* The fields of one variant from the sizes of its field types: each field
\* starts where the previous one ends.
variant_fields(sizes) ==
    [i \in 1..Len(sizes) |-> FieldRepr(SumSeq(SubSeq(sizes, 1, i - 1)), sizes[i])]

\* aggregate_of_sizes with the mutation that leaves the discriminant out of
\* the size.
aggregate_of_sizes_NoDiscr(variant_sizes) ==
    ReprAggregate(discr_size_of(Len(variant_sizes)),
                  MaxSeq([v \in 1..Len(variant_sizes) |-> SumSeq(variant_sizes[v])]),
                  [v \in 1..Len(variant_sizes) |-> variant_fields(variant_sizes[v])])

\* make_aggregate_repr over the already computed field sizes of each variant.
aggregate_of_sizes(variant_sizes) ==
    LET variants == [v \in 1..Len(variant_sizes) |-> variant_fields(variant_sizes[v])]
        max_variant_size ==
            MaxSeq([v \in 1..Len(variant_sizes) |-> SumSeq(variant_sizes[v])])
        discr_size == discr_size_of(Len(variants))
    IN  ReprAggregate(discr_size, max_variant_size + discr_size, variants)

RECURSIVE ty_to_repr(_, _)
RECURSIVE make_aggregate_repr(_, _)

\* make_aggregate_repr(variant_fields): the layout of a sum of products.
make_aggregate_repr(variant_field_tys, substs) ==
    aggregate_of_sizes(
        [v \in 1..Len(variant_field_tys) |->
            [i \in 1..Len(variant_field_tys[v]) |->
                ReprSize(ty_to_repr(variant_field_tys[v][i], substs))]])

\* The match of ty_to_repr on the monomorphized type.
repr_of(ty, substs) ==
    CASE ty.k = "bool" -> ReprPrimitive(1)
      [] ty.k \in {"isize", "usize"} -> ReprPrimitive(POINTER_SIZE)
      [] ty.k \in {"int", "uint"} -> ReprPrimitive(ty.w)
      [] ty.k = "tuple" -> make_aggregate_repr(<<ty.fields>>, substs)
      [] ty.k = "adt" -> make_aggregate_repr(ty.variants, substs)
      [] ty.k = "array" ->
            ReprArray(ReprSize(ty_to_repr(ty.elem, substs)), ty.len)
      [] ty.k = "ref" ->
            IF IsSized(ty.ty) THEN ReprPrimitive(POINTER_SIZE)
            ELSE ReprPrimitive(POINTER_SIZE * 2)
      [] ty.k = "closure" -> make_aggregate_repr(<<ty.upvars>>, substs)
      [] OTHER -> ReprPanic

\* ty_to_repr(ty) under the substitutions in force (monomorphize, then layout).
\* The layout cache only memoises this function.
ty_to_repr(ty0, substs) == repr_of(SubstTy(ty0, substs), substs)

\* ty_size(ty)
ty_size(ty, substs) == ReprSize(ty_to_repr(ty, substs))

(***************************************************************************)
(* Memory: allocations of bytes with relocations.  memory.rs is not among  *)
(* the sources; these definitions follow the memory interface of spec.md   *)
(* section 4.1 and the way interpreter.rs calls it.                        *)
(***************************************************************************)
Pointer(a, o) == [alloc_id |-> a, offset |-> o]

\* Pointer::offset: the same allocation, the offset moved by i bytes.
PtrOffset(p, i) == Pointer(p.alloc_id, p.offset + i)

\* An allocation: its bytes and its relocations, a set of entries
\* [off, id]: the pointer slot at byte offset off points into allocation id.
Allocation(bytes, relocations) == [bytes |-> bytes, relocations |-> relocations]

\* Memory::new(): no allocation; the next identifier is Len(allocs).
MemNew == [allocs |-> <<>>]

Ok(mem) == [err |-> "none", mem |-> mem]
Err(kind, mem) == [err |-> kind, mem |-> mem]

RECURSIVE Zeros(_)
\* n zero bytes.
Zeros(n) == IF n <= 0 THEN <<>> ELSE Append(Zeros(n - 1), 0)

\* Memory::allocate(n): a fresh identifier, n zero bytes, no relocation.
allocate(mem, n) ==
    [mem |-> [allocs |-> Append(mem.allocs, Allocation(Zeros(n), {}))],
     ptr |-> Pointer(Len(mem.allocs), 0)]

HasAlloc(mem, id) == id \in 0..(Len(mem.allocs) - 1)
AllocOf(mem, id) == mem.allocs[id + 1]

\* The range [p, p + n) lies inside p's allocation.
InBounds(mem, p, n) ==
    /\ HasAlloc(mem, p.alloc_id)
    /\ p.offset >= 0
    /\ n >= 0
    /\ p.offset + n <= Len(AllocOf(mem, p.alloc_id).bytes)

\* The relocations of alloc whose pointer slot meets the bytes [start, end).
RelocsIn(alloc, start, end) ==
    {r \in alloc.relocations : r.off + POINTER_SIZE > start /\ r.off < end}

RelocAt(alloc, off) == {r \in alloc.relocations : r.off = off}

\* The n bytes at p (p in bounds).
BytesAt(mem, p, n) == SubSeq(AllocOf(mem, p.alloc_id).bytes, p.offset + 1, p.offset + n)

RECURSIVE LEBytes(_, _)
\* The n low bytes of v, least significant first.
LEBytes(v, n) == IF n = 0 THEN <<>> ELSE <<v % 256>> \o LEBytes(v \div 256, n - 1)

RECURSIVE LEVal(_)
\* The unsigned value of little-endian bytes.
LEVal(bytes) == IF bytes = <<>> THEN 0 ELSE Head(bytes) + 256 * LEVal(Tail(bytes))

\* The signed (two's complement) value of little-endian bytes.
LEValSigned(bytes) ==
    IF bytes # <<>> /\ bytes[Len(bytes)] >= 128
    THEN -(LEVal([i \in 1..Len(bytes) |-> 255 - bytes[i]]) + 1)
    ELSE LEVal(bytes)

\* alloc.bytes with the bytes from offset off on replaced by bs.
PutBytes(bytes, off, bs) ==
    SubSeq(bytes, 1, off) \o bs \o SubSeq(bytes, off + Len(bs) + 1, Len(bytes))

SetAlloc(mem, id, alloc) == [allocs |-> [mem.allocs EXCEPT ![id + 1] = alloc]]

\* get_bytes without the look at the relocations of the range.
get_bytes_Unchecked(mem, p, n) ==
    IF ~InBounds(mem, p, n) THEN [err |-> "OutOfBounds", val |-> <<>>]
    ELSE [err |-> "none", val |-> BytesAt(mem, p, n)]

\* get_bytes: the bytes of a range that holds no part of a pointer.
get_bytes(mem, p, n) ==
    IF ~InBounds(mem, p, n) THEN [err |-> "OutOfBounds", val |-> <<>>]
    ELSE IF n > 0 /\ RelocsIn(AllocOf(mem, p.alloc_id), p.offset, p.offset + n) # {}
    THEN [err |-> "ReadBytesAsPointer", val |-> <<>>]
    ELSE [err |-> "none", val |-> BytesAt(mem, p, n)]

\* write_bytes: store bs at p.
write_bytes(mem, p, bs) ==
    IF ~InBounds(mem, p, Len(bs)) THEN Err("OutOfBounds", mem)
    ELSE LET a == AllocOf(mem, p.alloc_id) IN
         Ok(SetAlloc(mem, p.alloc_id,
                     Allocation(PutBytes(a.bytes, p.offset, bs), a.relocations)))

\* The value F of what a read r yields, def when the read fails.
ValueOf(r, F(_), def) == [err |-> r.err, val |-> IF r.err = "none" THEN F(r.val) ELSE def]

\* read_uint(p, size)
read_uint(mem, p, size) == ValueOf(get_bytes(mem, p, size), LEVal, 0)

\* read_int(p, size)
read_int(mem, p, size) == ValueOf(get_bytes(mem, p, size), LEValSigned, 0)

\* write_uint(p, n, size) and write_int(p, n, size): the low size bytes of n.
write_uint(mem, p, n, size) == write_bytes(mem, p, LEBytes(n, size))
write_int(mem, p, n, size) == write_bytes(mem, p, LEBytes(n, size))

\* The bool of the byte read by r.
bool_of(r) ==
    IF r.err # "none" THEN [err |-> r.err, val |-> FALSE]
    ELSE IF r.val[1] \notin {0, 1} THEN [err |-> "InvalidBool", val |-> FALSE]
    ELSE [err |-> "none", val |-> r.val[1] = 1]

\* read_bool(p): one byte, 0 or 1.
read_bool(mem, p) == bool_of(get_bytes(mem, p, 1))

\* write_bool(p, b)
write_bool(mem, p, b) == write_bytes(mem, p, <<IF b THEN 1 ELSE 0>>)

\* read_ptr(p): the pointer stored in the slot at p; needs a relocation there.
read_ptr(mem, p) ==
    IF ~InBounds(mem, p, POINTER_SIZE)
    THEN [err |-> "OutOfBounds", val |-> Pointer(0, 0)]
    ELSE LET a == AllocOf(mem, p.alloc_id)
             rs == RelocAt(a, p.offset)
         IN  IF rs = {} THEN [err |-> "ReadPointerAsBytes", val |-> Pointer(0, 0)]
             ELSE [err |-> "none",
                   val |-> Pointer((CHOOSE r \in rs : TRUE).id,
                                   LEVal(BytesAt(mem, p, POINTER_SIZE)))]

\* write_ptr(p, q): q's offset into the bytes, a relocation to q's allocation.
write_ptr(mem, p, q) ==
    IF ~InBounds(mem, p, POINTER_SIZE) THEN Err("OutOfBounds", mem)
    ELSE LET a == AllocOf(mem, p.alloc_id) IN
         Ok(SetAlloc(mem, p.alloc_id,
                Allocation(PutBytes(a.bytes, p.offset, LEBytes(q.offset, POINTER_SIZE)),
                           (a.relocations \ RelocAt(a, p.offset))
                               \cup {[off |-> p.offset, id |-> q.alloc_id]})))

RECURSIVE CopyForward(_, _, _, _, _)
\* bytes after copying n bytes from offset s to offset d of another (or the
\* same) byte sequence, lowest address first.
CopyForward(srcb, dstb, s, d, n) ==
    IF n = 0 THEN dstb
    ELSE CopyForward(srcb, PutBytes(dstb, d, <<srcb[s + 1]>>), s + 1, d + 1, n - 1)

RECURSIVE CopySame(_, _, _, _)
CopySame(b, s, d, n) ==
    IF n = 0 THEN b ELSE CopySame(PutBytes(b, d, <<b[s + 1]>>), s + 1, d + 1, n - 1)

\* copy of the bytes alone: the relocations of the source range stay behind.
copy_BytesOnly(mem, src, dest, size) ==
    IF ~InBounds(mem, src, size) \/ ~InBounds(mem, dest, size) THEN Err("OutOfBounds", mem)
    ELSE LET sa == AllocOf(mem, src.alloc_id)
             da == AllocOf(mem, dest.alloc_id)
             bytes == IF src.alloc_id = dest.alloc_id
                      THEN CopySame(da.bytes, src.offset, dest.offset, size)
                      ELSE CopyForward(sa.bytes, da.bytes, src.offset, dest.offset, size)
         IN  Ok(SetAlloc(mem, dest.alloc_id, Allocation(bytes, da.relocations)))

\* copy(src, dest, size): the bytes and the relocations of the source range.
copy(mem, src, dest, size) ==
    IF ~InBounds(mem, src, size) \/ ~InBounds(mem, dest, size) THEN Err("OutOfBounds", mem)
    ELSE LET sa == AllocOf(mem, src.alloc_id)
             da == AllocOf(mem, dest.alloc_id)
             moved == {[off |-> r.off + dest.offset - src.offset, id |-> r.id] :
                        r \in {r \in sa.relocations :
                                r.off >= src.offset /\ r.off < src.offset + size}}
             bytes == IF src.alloc_id = dest.alloc_id
                      THEN CopySame(da.bytes, src.offset, dest.offset, size)
                      ELSE CopyForward(sa.bytes, da.bytes, src.offset, dest.offset, size)
             kept == {r \in da.relocations : \A m \in moved : m.off # r.off}
         IN  Ok(SetAlloc(mem, dest.alloc_id, Allocation(bytes, kept \cup moved)))

(***************************************************************************)
(* PrimVal: a tagged primitive, and the operators over it (primval.rs is   *)
(* not among the sources; spec.md sections 4.1 and 4.3).                   *)
(***************************************************************************)
PrimBool(b) == [k |-> "Bool", w |-> 1, v |-> IF b THEN 1 ELSE 0]
PrimInt(w, v) == [k |-> "Int", w |-> w, v |-> v]
PrimUint(w, v) == [k |-> "Uint", w |-> w, v |-> v]

\* The width in bytes of a primitive type, 0 for a type that is none.
PrimWidth(ty) ==
    CASE ty.k = "bool" -> 1
      [] ty.k \in {"int", "uint"} -> ty.w
      [] ty.k \in {"isize", "usize"} -> POINTER_SIZE
      [] OTHER -> 0

\* read_primval(p, ty)
read_primval(mem, p, ty) ==
    CASE ty.k = "bool" -> ValueOf(read_bool(mem, p), PrimBool, PrimBool(FALSE))
      [] ty.k \in {"int", "isize"} ->
            ValueOf(read_int(mem, p, PrimWidth(ty)),
                    LAMBDA v : PrimInt(PrimWidth(ty), v), PrimBool(FALSE))
      [] ty.k \in {"uint", "usize"} ->
            ValueOf(read_uint(mem, p, PrimWidth(ty)),
                    LAMBDA v : PrimUint(PrimWidth(ty), v), PrimBool(FALSE))
      [] OTHER -> [err |-> "panic", val |-> PrimBool(FALSE)]

\* write_primval(p, v)
write_primval(mem, p, pv) ==
    CASE pv.k = "Bool" -> write_bool(mem, p, pv.v = 1)
      [] pv.k = "Int" -> write_int(mem, p, pv.v, pv.w)
      [] pv.k = "Uint" -> write_uint(mem, p, pv.v, pv.w)
      [] OTHER -> Err("panic", mem)

\* primval::binary_op on two values of the same tag; the result is wrapped
\* to the width when it is written.
binary_op(op, l, r) ==
    LET mk(v) == [k |-> l.k, w |-> l.w, v |-> v] IN
    CASE op = "Add" -> mk(l.v + r.v)
      [] op = "Sub" -> mk(l.v - r.v)
      [] op = "Mul" -> mk(l.v * r.v)
      [] op = "Eq" -> PrimBool(l.v = r.v)
      [] op = "Ne" -> PrimBool(l.v # r.v)
      [] op = "Lt" -> PrimBool(l.v < r.v)
      [] op = "Le" -> PrimBool(l.v <= r.v)
      [] op = "Gt" -> PrimBool(l.v > r.v)
      [] op = "Ge" -> PrimBool(l.v >= r.v)
      [] OTHER -> mk(0)

\* primval::unary_op
unary_op(op, a) ==
    CASE op = "Not" /\ a.k = "Bool" -> PrimBool(a.v = 0)
      [] op = "Neg" -> [k |-> a.k, w |-> a.w, v |-> 0 - a.v]
      [] OTHER -> a

(***************************************************************************)
(* The MIR consumed by the interpreter (rustc::mir::repr).  Indices of     *)
(* locals, fields, variants and blocks count from 0, as in the source.     *)
(***************************************************************************)
LvReturnPointer == [k |-> "ReturnPointer"]
LvArg(i) == [k |-> "Arg", i |-> i]
LvVar(i) == [k |-> "Var", i |-> i]
LvTemp(i) == [k |-> "Temp", i |-> i]
LvStatic == [k |-> "Static"]
LvProj(base, elem) == [k |-> "Projection", base |-> base, elem |-> elem]

ElemField(i, ty) == [k |-> "Field", i |-> i, ty |-> ty]
ElemDowncast(v) == [k |-> "Downcast", v |-> v]
ElemDeref == [k |-> "Deref"]
ElemIndex(i) == [k |-> "Index", i |-> i]

ConstIntegral(v) == [k |-> "Integral", v |-> v]
\* An Integral too wide for the integers of the model, by the eight
\* little-endian bytes of int.to_u64_unchecked().
ConstIntegralLE(bytes) == [k |-> "IntegralLE", v |-> bytes]
ConstBool(b) == [k |-> "Bool", v |-> IF b THEN 1 ELSE 0]
ConstStr == [k |-> "Str", v |-> 0]
ConstFloat == [k |-> "Float", v |-> 0]
ConstByteStr == [k |-> "ByteStr", v |-> 0]

OpConsume(lv) == [k |-> "Consume", lv |-> lv]
OpConst(value, ty) == [k |-> "Constant", lit |-> "Value", value |-> value, ty |-> ty]
OpItem(ty) == [k |-> "Constant", lit |-> "Item", value |-> ConstStr, ty |-> ty]

RvUse(op) == [k |-> "Use", op |-> op]
RvBinaryOp(bin_op, l, r) == [k |-> "BinaryOp", bin_op |-> bin_op, l |-> l, r |-> r]
RvUnaryOp(un_op, op) == [k |-> "UnaryOp", un_op |-> un_op, op |-> op]
RvAggregate(kind, variant, ops) ==
    [k |-> "Aggregate", kind |-> kind, variant |-> variant, ops |-> ops]
RvRef(lv) == [k |-> "Ref", lv |-> lv]
RvBox(ty) == [k |-> "Box", ty |-> ty]
RvCast(kind, op, ty) == [k |-> "Cast", kind |-> kind, op |-> op, ty |-> ty]
RvLen(lv) == [k |-> "Len", lv |-> lv]

Assign(lv, rv) == [lv |-> lv, rv |-> rv]

\* The callee of a Call: a constant of type TyFnDef(def_id, substs, fn_ty).
FnDef(def_id, substs, abi) ==
    [k |-> "FnDef", def_id |-> def_id, substs |-> substs, abi |-> abi]
\* A callee that is no function item (a function pointer).
FnPtr == [k |-> "FnPtr", def_id |-> "", substs |-> EmptySubsts, abi |-> "Rust"]

TmReturn == [k |-> "Return"]
TmGoto(target) == [k |-> "Goto", target |-> target]
TmIf(cond, then_target, else_target) ==
    [k |-> "If", cond |-> cond, then_target |-> then_target, else_target |-> else_target]
TmSwitchInt(discr, values, targets) ==
    [k |-> "SwitchInt", discr |-> discr, values |-> values, targets |-> targets]
TmSwitch(discr, targets) == [k |-> "Switch", discr |-> discr, targets |-> targets]
\* destination: None, or Some(<<lvalue, target>>).
TmCall(func, args, destination) ==
    [k |-> "Call", func |-> func, args |-> args, destination |-> destination]
TmDrop(target) == [k |-> "Drop", target |-> target]
TmResume == [k |-> "Resume"]

BasicBlock(statements, terminator) ==
    [statements |-> statements, terminator |-> terminator]

\* return_ty: Some(ty) for FnConverging(ty), None for FnDiverging.
Mir(arg_decls, var_decls, temp_decls, return_ty, blocks) ==
    [arg_decls |-> arg_decls, var_decls |-> var_decls, temp_decls |-> temp_decls,
     return_ty |-> return_ty, blocks |-> blocks]

START_BLOCK == 0

(***************************************************************************)
(* The interpreter state and its evaluation functions.                     *)
(***************************************************************************)
\* A CachedMir: a borrowed (Ref) or shared-owned (Owned) handle of a body;
\* its Deref is the body.  rc names the Rc the Owned handle shares (0 for Ref).
CachedMir(kind, def_id, rc, body) ==
    [kind |-> kind, def_id |-> def_id, rc |-> rc, body |-> body]

Frame(mir, next_block, return_ptr, locals, var_offset, temp_offset) ==
    [mir |-> mir, next_block |-> next_block, return_ptr |-> return_ptr,
     locals |-> locals, var_offset |-> var_offset, temp_offset |-> temp_offset]

\* The fields of Interpreter that change: memory, stack, substs_stack,
\* mir_cache; and the reads made of the crate store (tcx.sess.cstore).
Interp(mem, stk, substs, cache, reads) ==
    [memory |-> mem, stack |-> stk, substs_stack |-> substs, mir_cache |-> cache,
     cstore_log |-> reads]

WithMem(st, mem) == [st EXCEPT !.memory = mem]

\* Results of the evaluation functions: err is "none", an error kind of
\* EvalResult, or "panic" when the interpreter itself aborts.
Res(err, st, val) == [err |-> err, st |-> st, val |-> val]
NoPtr == Pointer(0, 0)
Panic(st) == Res("panic", st, NoPtr)
Done(st) == Res("none", st, NoPtr)

\* let r = try!(e); F(r): an error is passed on, a success goes on.
Try(r, F(_)) == IF r.err = "none" THEN F(r) ELSE r
\* The interpreter after a write w to, or a read r of, its memory.
Written(st, w) == Res(w.err, WithMem(st, w.mem), NoPtr)
ReadOf(st, r) == Res(r.err, st, r.val)

\* current_frame(): the top of the stack.
current_frame(st) == st.stack[Len(st.stack)]

\* current_substs(): the top of substs_stack, the empty substitutions if none.
current_substs(st) ==
    IF st.substs_stack = <<>> THEN EmptySubsts
    ELSE st.substs_stack[Len(st.substs_stack)]

\* monomorphize(ty)
monomorphize(st, ty) == SubstTy(ty, current_substs(st))

\* LvalueTy: a type, or a variant of an ADT after a Downcast.
LvTy(ty) == [k |-> "Ty", ty |-> ty, variant_index |-> 0]
LvDowncast(adt, v) == [k |-> "Downcast", ty |-> adt, variant_index |-> v]

\* The type of a projection from a base of type base.
projection_ty(base, elem) ==
    CASE elem.k = "Deref" -> LvTy(base.ty.ty)
      [] elem.k = "Field" -> LvTy(elem.ty)
      [] elem.k = "Downcast" -> LvDowncast(base.ty, elem.v)
      [] OTHER -> LvTy(base.ty.elem)

RECURSIVE lvalue_ty(_, _)
\* Mir::lvalue_ty(tcx, lvalue)
lvalue_ty(mir, lv) ==
    CASE lv.k = "ReturnPointer" -> LvTy(Unwrap(mir.return_ty))
      [] lv.k = "Arg" -> LvTy(mir.arg_decls[lv.i + 1])
      [] lv.k = "Var" -> LvTy(mir.var_decls[lv.i + 1])
      [] lv.k = "Temp" -> LvTy(mir.temp_decls[lv.i + 1])
      [] lv.k = "Projection" -> projection_ty(lvalue_ty(mir, lv.base), lv.elem)
      [] OTHER -> LvTy(TUnit)

(***************************************************************************)
(* The interpreted crate: a family of MIR bodies.  An item is named by a   *)
(* DefId [name, n]; n is the integral literal the item's body mentions, so *)
(* that every entry item exists once for every n in 0..MaxInput.           *)
(***************************************************************************)
Def(name, n) == [name |-> name, n |-> n]

U8 == TUint(1)
U32 == TUint(4)
U64 == TUint(8)
I32 == TInt(4)
PairU8U32 == TTuple(<<U8, U32>>)
\* enum Option<u8> { None, Some(u8) }
OptionU8 == TAdt(<< <<>>, <<U8>> >>)
\* enum Shape { Dot(u8), Rect(u8, u32) }
Shape == TAdt(<< <<U8>>, <<U8, U32>> >>)
\* (u8, u32), Option<u8> and a fat reference in one tuple.
Nested == TTuple(<<PairU8U32, OptionU8, TRef(TSlice(U8))>>)
\* The captured state of a closure |a, b| with one upvar.
ClosureU8 == TClosure(<<U8>>)

CInt(v, ty) == OpConst(ConstIntegral(v), ty)
Arg0 == OpConsume(LvArg(0))
Var0 == OpConsume(LvVar(0))
Temp0 == OpConsume(LvTemp(0))
Temp1 == OpConsume(LvTemp(1))

\* The n-th of three monomorphic types.
TyOfInput(n) == IF n % 3 = 0 THEN U8 ELSE IF n % 3 = 1 THEN PairU8U32 ELSE U64

Fn(name, types) == FnDef(Def(name, 0), Substs(None, types), "Rust")
Intrinsic(name, types) == FnDef(Def(name, 0), Substs(None, types), "RustIntrinsic")

\* fn arith() -> i32 { n + 3 * 4 }
MirArith(n) ==
    Mir(<<>>, <<>>, <<I32>>, Some(I32), <<
        BasicBlock(<<Assign(LvTemp(0), RvBinaryOp("Mul", CInt(3, I32), CInt(4, I32))),
                     Assign(LvReturnPointer, RvBinaryOp("Add", CInt(n, I32), Temp0))>>,
                   TmReturn) >>)

\* fn branch() -> u8 { if n < 1 { 1 } else { 7 } }
MirBranch(n) ==
    Mir(<<>>, <<>>, <<TBool>>, Some(U8), <<
        BasicBlock(<<Assign(LvTemp(0), RvBinaryOp("Lt", CInt(n, I32), CInt(1, I32)))>>,
                   TmIf(Temp0, 1, 2)),
        BasicBlock(<<Assign(LvReturnPointer, RvUse(CInt(1, U8)))>>, TmGoto(3)),
        BasicBlock(<<Assign(LvReturnPointer, RvUse(CInt(7, U8)))>>, TmGoto(3)),
        BasicBlock(<<>>, TmReturn) >>)

\* fn call() -> u8 { let v = n; let t = add_one(v); add_one(t) }
MirCall(n) ==
    Mir(<<>>, <<U8>>, <<U8>>, Some(U8), <<
        BasicBlock(<<Assign(LvVar(0), RvUse(CInt(n, U8)))>>,
                   TmCall(Fn("add_one", <<>>), <<Var0>>, Some(<<LvTemp(0), 1>>))),
        BasicBlock(<<>>,
                   TmCall(Fn("add_one", <<>>), <<Temp0>>, Some(<<LvReturnPointer, 2>>))),
        BasicBlock(<<>>, TmReturn) >>)

\* fn add_one(a: u8) -> u8 { let v = a; v + 1 }   (an item of another crate)
MirAddOne ==
    Mir(<<U8>>, <<U8>>, <<U8>>, Some(U8), <<
        BasicBlock(<<Assign(LvVar(0), RvUse(Arg0)),
                     Assign(LvTemp(0), RvBinaryOp("Add", Var0, CInt(1, U8))),
                     Assign(LvReturnPointer, RvUse(Temp0))>>,
                   TmReturn) >>)

\* fn count() -> u8 { count_down(n) }
MirCount(n) ==
    Mir(<<>>, <<>>, <<>>, Some(U8), <<
        BasicBlock(<<>>, TmCall(Fn("count_down", <<>>), <<CInt(n, U8)>>,
                                Some(<<LvReturnPointer, 1>>))),
        BasicBlock(<<>>, TmReturn) >>)

\* fn count_down(a: u8) -> u8 { if a == 0 { a } else { count_down(a - 1) } }
MirCountDown ==
    Mir(<<U8>>, <<>>, <<TBool, U8>>, Some(U8), <<
        BasicBlock(<<Assign(LvTemp(0), RvBinaryOp("Eq", Arg0, CInt(0, U8)))>>,
                   TmIf(Temp0, 1, 2)),
        BasicBlock(<<Assign(LvReturnPointer, RvUse(Arg0))>>, TmReturn),
        BasicBlock(<<Assign(LvTemp(1), RvBinaryOp("Sub", Arg0, CInt(1, U8)))>>,
                   TmCall(Fn("count_down", <<>>), <<Temp1>>, Some(<<LvReturnPointer, 3>>))),
        BasicBlock(<<>>, TmReturn) >>)

\* fn sizes() -> usize { let t = size_of::<T>(); let v = t; size_of::<u32>() }
MirSizes(n) ==
    Mir(<<>>, <<TUsize>>, <<TUsize>>, Some(TUsize), <<
        BasicBlock(<<>>, TmCall(Intrinsic("size_of", <<TyOfInput(n)>>), <<>>,
                                Some(<<LvTemp(0), 1>>))),
        BasicBlock(<<Assign(LvVar(0), RvUse(Temp0))>>,
                   TmCall(Intrinsic("size_of", <<U32>>), <<>>,
                          Some(<<LvReturnPointer, 2>>))),
        BasicBlock(<<>>, TmReturn) >>)

\* fn to_bool() -> bool { let t = n as u8; let b: bool = transmute(t);
\*                        if b { forget(t); true } else { false } }
MirToBool(n) ==
    Mir(<<>>, <<TBool>>, <<U8, TUnit>>, Some(TBool), <<
        BasicBlock(<<Assign(LvTemp(0), RvUse(CInt(n, U8)))>>,
                   TmCall(Intrinsic("transmute", <<U8, TBool>>), <<Temp0>>,
                          Some(<<LvReturnPointer, 1>>))),
        BasicBlock(<<>>, TmIf(OpConsume(LvReturnPointer), 2, 3)),
        BasicBlock(<<>>, TmCall(Intrinsic("forget", <<U8>>), <<Temp0>>,
                                Some(<<LvTemp(1), 3>>))),
        BasicBlock(<<>>, TmReturn) >>)

\* fn narrow() -> u64 { widen(); cast(n) }: the callee fails when n > 0.
MirNarrow(n) ==
    Mir(<<>>, <<>>, <<U64>>, Some(U64), <<
        BasicBlock(<<>>, TmCall(FnDef(Def("cast", n), EmptySubsts, "Rust"), <<>>,
                                Some(<<LvReturnPointer, 1>>))),
        BasicBlock(<<>>, TmReturn) >>)

\* fn cast() -> u64 { let v: u32 = 5; let b: u8;
\*                    match n { 0 => 5 as u64, 1 => v as u64, _ => { b = 5u64 as u8; .. } } }
MirCast(n) ==
    Mir(<<>>, <<U32, U8>>, <<>>, Some(U64), <<
        BasicBlock(<<Assign(LvVar(0), RvUse(CInt(5, U32))),
                     IF n < 2
                     THEN Assign(LvReturnPointer,
                                 RvCast("Misc", IF n = 0 THEN CInt(5, U32) ELSE Var0, U64))
                     ELSE Assign(LvVar(1), RvCast("Misc", CInt(5, U64), U8))>>,
                   TmReturn) >>)

\* fn generic() -> T_n { id::<T_n>(t) }
MirGeneric(n) ==
    Mir(<<>>, <<>>, <<TyOfInput(n)>>, Some(TyOfInput(n)), <<
        BasicBlock(<<>>, TmCall(Fn("id", <<TyOfInput(n)>>), <<Temp0>>,
                                Some(<<LvReturnPointer, 1>>))),
        BasicBlock(<<>>, TmReturn) >>)

\* fn id<T>(x: T) -> T { let v = x; v }
MirId ==
    Mir(<<TParam(0)>>, <<TParam(0)>>, <<>>, Some(TParam(0)), <<
        BasicBlock(<<Assign(LvVar(0), RvUse(Arg0)),
                     Assign(LvReturnPointer, RvUse(Var0))>>, TmReturn) >>)

\* fn nest() -> T_n { wrap::<T_n>(t) } with t the value 7 of an integer type
\* and the pair (7, 9) otherwise.
MirNest(n) ==
    Mir(<<>>, <<>>, <<TyOfInput(n)>>, Some(TyOfInput(n)), <<
        BasicBlock(<<Assign(LvTemp(0),
                            IF TyOfInput(n) = PairU8U32
                            THEN RvAggregate("Tuple", 0, <<CInt(7, U8), CInt(9, U32)>>)
                            ELSE RvUse(CInt(7, TyOfInput(n))))>>,
                   TmCall(Fn("wrap", <<TyOfInput(n)>>), <<Temp0>>,
                          Some(<<LvReturnPointer, 1>>))),
        BasicBlock(<<>>, TmReturn) >>)

\* fn wrap<T>(x: T) -> T { let k = id::<u8>(3); id::<T>(x) }
MirWrap ==
    Mir(<<TParam(0)>>, <<>>, <<U8, U8>>, Some(TParam(0)), <<
        BasicBlock(<<Assign(LvTemp(0), RvUse(CInt(3, U8)))>>,
                   TmCall(Fn("id", <<U8>>), <<Temp0>>, Some(<<LvTemp(1), 1>>))),
        BasicBlock(<<>>, TmCall(Fn("id", <<TParam(0)>>), <<Arg0>>,
                                Some(<<LvReturnPointer, 2>>))),
        BasicBlock(<<>>, TmReturn) >>)

\* fn dispatch() -> u8 { <T_n as Trait>::get() }
MirDispatch(n) ==
    Mir(<<>>, <<>>, <<>>, Some(U8), <<
        BasicBlock(<<>>,
                   TmCall(FnDef(Def("Trait::get", 0), Substs(Some(TyOfInput(n)), <<>>), "Rust"),
                          <<>>, Some(<<LvReturnPointer, 1>>))),
        BasicBlock(<<>>, TmReturn) >>)

\* impl Trait for T_k { fn get() -> u8 { 100 + k } }
MirImplGet(k) ==
    Mir(<<>>, <<>>, <<>>, Some(U8), <<
        BasicBlock(<<Assign(LvReturnPointer, RvUse(CInt(100 + k, U8)))>>, TmReturn) >>)

\* fn option() -> u8 { let v = if n is odd { Some(9) } else { None };
\*                     match v { None => 0, Some(x) => x } }
MirOption(n) ==
    Mir(<<>>, <<OptionU8>>, <<>>, Some(U8), <<
        BasicBlock(<<Assign(LvVar(0),
                            RvAggregate("Adt", n % 2,
                                        IF n % 2 = 1 THEN <<CInt(9, U8)>> ELSE <<>>))>>,
                   TmSwitch(LvVar(0), <<1, 2>>)),
        BasicBlock(<<Assign(LvReturnPointer, RvUse(CInt(0, U8)))>>, TmGoto(3)),
        BasicBlock(<<Assign(LvReturnPointer,
                            RvUse(OpConsume(LvProj(LvProj(LvVar(0), ElemDowncast(1)),
                                                   ElemField(0, U8)))))>>,
                   TmGoto(3)),
        BasicBlock(<<>>, TmReturn) >>)

\* fn boxed() -> u64 { let b = Box::new(40 + n); let r = &*b; *r }
MirBoxed(n) ==
    Mir(<<>>, <<TRef(U64), TRef(U64)>>, <<>>, Some(U64), <<
        BasicBlock(<<Assign(LvVar(0), RvBox(U64)),
                     Assign(LvProj(LvVar(0), ElemDeref), RvUse(CInt(40 + n, U64))),
                     Assign(LvVar(1), RvRef(LvProj(LvVar(0), ElemDeref))),
                     Assign(LvReturnPointer, RvUse(OpConsume(LvProj(LvVar(1), ElemDeref))))>>,
                   TmDrop(1)),
        BasicBlock(<<>>, TmReturn) >>)

\* fn pick() -> u8 { let v: u32 = 256 + n;
\*                   match v { 0 => 9, 256 => 10, 257 => 11, 257 => 13, _ => 12 } }
MirPick(n) ==
    Mir(<<>>, <<U32>>, <<>>, Some(U8), <<
        BasicBlock(<<Assign(LvVar(0), RvUse(CInt(256 + n, U32)))>>,
                   TmSwitchInt(LvVar(0),
                               <<ConstIntegral(0), ConstIntegral(256), ConstIntegral(257),
                                 ConstIntegral(257)>>,
                               <<1, 2, 3, 4, 5>>)),
        BasicBlock(<<Assign(LvReturnPointer, RvUse(CInt(9, U8)))>>, TmGoto(6)),
        BasicBlock(<<Assign(LvReturnPointer, RvUse(CInt(10, U8)))>>, TmGoto(6)),
        BasicBlock(<<Assign(LvReturnPointer, RvUse(CInt(11, U8)))>>, TmGoto(6)),
        BasicBlock(<<Assign(LvReturnPointer, RvUse(CInt(13, U8)))>>, TmGoto(6)),
        BasicBlock(<<Assign(LvReturnPointer, RvUse(CInt(12, U8)))>>, TmGoto(6)),
        BasicBlock(<<>>, TmReturn) >>)

\* fn closure() -> u8 { let c = |a, b| up + a + b; c(n, 2) }, the call going
\* through the "rust-call" ABI with the arguments in a tuple.
MirClosure(n) ==
    Mir(<<>>, <<ClosureU8>>, <<TTuple(<<U8, U8>>)>>, Some(U8), <<
        BasicBlock(<<Assign(LvVar(0), RvAggregate("Closure", 0, <<CInt(1, U8)>>)),
                     Assign(LvTemp(0), RvAggregate("Tuple", 0, <<CInt(n, U8), CInt(2, U8)>>))>>,
                   TmCall(FnDef(Def("closure_body", 0), EmptySubsts, "RustCall"),
                          <<Var0, Temp0>>, Some(<<LvReturnPointer, 1>>))),
        BasicBlock(<<>>, TmReturn) >>)

\* The closure's body: fn(env, a, b) -> u8 { env.0 + a + b }
MirClosureBody ==
    Mir(<<ClosureU8, U8, U8>>, <<>>, <<U8>>, Some(U8), <<
        BasicBlock(<<Assign(LvTemp(0),
                            RvBinaryOp("Add", OpConsume(LvProj(LvArg(0), ElemField(0, U8))),
                                       OpConsume(LvArg(1)))),
                     Assign(LvReturnPointer, RvBinaryOp("Add", Temp0, OpConsume(LvArg(2))))>>,
                   TmReturn) >>)

\* fn pair(a: u8, b: u32) -> u8 { a }, called through the "rust-call" ABI.
MirPairBody ==
    Mir(<<U8, U32>>, <<>>, <<>>, Some(U8), <<
        BasicBlock(<<Assign(LvReturnPointer, RvUse(Arg0))>>, TmReturn) >>)

\* fn rust_call() -> u8 { let t = (n, 7); let o = Some(3); let b = n;
\*                        pair.call(x) }, x being t, o or b: a "rust-call"
\* call whose only argument is a tuple, an enum or an integer.
MirRustCall(n) ==
    Mir(<<>>, <<PairU8U32, OptionU8, U8>>, <<>>, Some(U8), <<
        BasicBlock(<<Assign(LvVar(0), RvAggregate("Tuple", 0, <<CInt(n, U8), CInt(7, U32)>>)),
                     Assign(LvVar(1), RvAggregate("Adt", 1, <<CInt(3, U8)>>)),
                     Assign(LvVar(2), RvUse(CInt(n, U8)))>>,
                   TmCall(FnDef(Def("pair", 0), EmptySubsts, "RustCall"),
                          <<OpConsume(LvVar(n % 3))>>, Some(<<LvReturnPointer, 1>>))),
        BasicBlock(<<>>, TmReturn) >>)

\* fn tuple_size() -> usize { let t: Nested; let p = (n, 7); t.0 = p;
\*                            size_of::<T>() }, T being (u8, u32) or Nested.
MirTupleSize(n) ==
    Mir(<<>>, <<Nested, PairU8U32>>, <<>>, Some(TUsize), <<
        BasicBlock(<<Assign(LvVar(1), RvAggregate("Tuple", 0, <<CInt(n, U8), CInt(7, U32)>>)),
                     Assign(LvProj(LvVar(0), ElemField(0, PairU8U32)),
                            RvUse(OpConsume(LvVar(1))))>>,
                   TmCall(Intrinsic("size_of", <<IF n % 2 = 0 THEN PairU8U32 ELSE Nested>>),
                          <<>>, Some(<<LvReturnPointer, 1>>))),
        BasicBlock(<<>>, TmReturn) >>)

\* fn unwind() -> u8 { if n == 0 { resume } else { "str" } }: shapes the
\* interpreter recognises and does not implement.
MirUnwind(n) ==
    Mir(<<>>, <<>>, <<>>, Some(U8), <<
        BasicBlock(<<>>, IF n = 0 THEN TmResume ELSE TmGoto(1)),
        BasicBlock(<<Assign(LvReturnPointer, RvUse(OpConst(ConstStr, U8)))>>, TmReturn) >>)

\* fn literal() -> u8 { "str" | 1.0 | ITEM | b"str" }: the literals the
\* interpreter does not evaluate.
MirLiteral(n) ==
    Mir(<<>>, <<>>, <<>>, Some(U8), <<
        BasicBlock(<<Assign(LvReturnPointer,
                            RvUse(CASE n = 0 -> OpConst(ConstStr, U8)
                                    [] n = 1 -> OpConst(ConstFloat, U8)
                                    [] n = 2 -> OpItem(U8)
                                    [] OTHER -> OpConst(ConstByteStr, U8)))>>,
                   TmReturn) >>)

\* fn links() -> ..: what it returns points to x.
\*   n = 0: x = &x as *const _ as *const u8; x           (x points to itself)
\*   n = 1: (&y, &y)                                     (two pointers to y)
\*   else:  x = &y; &x                                   (a chain)
MirLinks(n) ==
    Mir(<<>>, <<TRef(U8), U8>>, <<TRef(TRef(U8)), TRef(U8)>>,
        Some(CASE n = 0 -> TRef(U8)
               [] n = 1 -> TTuple(<<TRef(U8), TRef(U8)>>)
               [] OTHER -> TRef(TRef(U8))),
        <<BasicBlock(
            CASE n = 0 -> <<Assign(LvTemp(0), RvRef(LvVar(0))),
                            Assign(LvVar(0), RvCast("Misc", OpConsume(LvTemp(0)), TRef(U8))),
                            Assign(LvReturnPointer, RvUse(OpConsume(LvVar(0))))>>
              [] n = 1 -> <<Assign(LvVar(0), RvRef(LvVar(1))),
                            Assign(LvTemp(1), RvRef(LvVar(1))),
                            Assign(LvReturnPointer,
                                   RvAggregate("Tuple", 0,
                                               <<OpConsume(LvVar(0)), OpConsume(LvTemp(1))>>))>>
              [] OTHER -> <<Assign(LvVar(0), RvRef(LvVar(1))),
                            Assign(LvReturnPointer, RvRef(LvVar(0)))>>,
            TmReturn)>>)

\* fn shape() -> u32 { let s = Shape::Rect(3 + n, 7 + n);
\*                     if let Shape::Rect(_, h) = s { h } }
\* For n >= 2 the field is taken from s itself, with no downcast.
MirShape(n) ==
    Mir(<<>>, <<Shape>>, <<>>, Some(U32), <<
        BasicBlock(<<Assign(LvVar(0),
                            RvAggregate("Adt", 1, <<CInt(3 + n, U8), CInt(7 + n, U32)>>)),
                     Assign(LvReturnPointer,
                            RvUse(OpConsume(
                                IF n >= 2 THEN LvProj(LvVar(0), ElemField(0, U8))
                                ELSE LvProj(LvProj(LvVar(0), ElemDowncast(1)),
                                            ElemField(1, U32)))))>>,
                   TmReturn) >>)

\* fn index() -> u32 { let even = true /* false for odd n */;
\*                     let a = [10, 11, 12]; a[n % 3] }
MirIndex(n) ==
    Mir(<<>>, <<TArray(U32, 3), TBool>>, <<>>, Some(U32), <<
        BasicBlock(<<Assign(LvVar(1), RvUse(OpConst(ConstBool(n % 2 = 0), TBool))),
                     Assign(LvVar(0),
                            RvAggregate("Vec", 0,
                                        <<CInt(10, U32), CInt(11, U32), CInt(12, U32)>>)),
                     Assign(LvReturnPointer,
                            RvUse(OpConsume(LvProj(LvVar(0), ElemIndex(n % 3)))))>>,
                   TmReturn) >>)

\* fn deref() -> u8:   (y: u8, r: &u8, q: &u8, t0: &&u8)
\*   n = 0: y = 5; r = &y; *r
\*   n = 1: r = &y; *q                 (q is never assigned)
\*   else:  y = 5 + n; r = &y; t0 = &r; **t0
MirDeref(n) ==
    Mir(<<>>, <<U8, TRef(U8), TRef(U8)>>, <<TRef(TRef(U8))>>, Some(U8),
        <<BasicBlock(
            CASE n = 0 -> <<Assign(LvVar(0), RvUse(CInt(5, U8))),
                            Assign(LvVar(1), RvRef(LvVar(0))),
                            Assign(LvReturnPointer,
                                   RvUse(OpConsume(LvProj(LvVar(1), ElemDeref))))>>
              [] n = 1 -> <<Assign(LvVar(1), RvRef(LvVar(0))),
                            Assign(LvReturnPointer,
                                   RvUse(OpConsume(LvProj(LvVar(2), ElemDeref))))>>
              [] OTHER -> <<Assign(LvVar(0), RvUse(CInt(5 + n, U8))),
                            Assign(LvVar(1), RvRef(LvVar(0))),
                            Assign(LvTemp(0), RvRef(LvVar(1))),
                            Assign(LvReturnPointer,
                                   RvUse(OpConsume(LvProj(LvProj(LvTemp(0), ElemDeref),
                                                          ElemDeref))))>>,
            TmReturn)>>)

\* fn unsize() -> &[u8] { let a = [1u8; n + 2]; let r = &a; r as &[u8] }
MirUnsize(n) ==
    Mir(<<>>, <<TArray(U8, n + 2), TRef(TArray(U8, n + 2))>>, <<>>, Some(TRef(TSlice(U8))), <<
        BasicBlock(<<Assign(LvVar(0),
                            RvAggregate("Vec", 0, [i \in 1..(n + 2) |-> CInt(1, U8)])),
                     Assign(LvVar(1), RvRef(LvVar(0))),
                     Assign(LvReturnPointer,
                            RvCast("Unsize", OpConsume(LvVar(1)), TRef(TSlice(U8))))>>,
                   TmReturn) >>)

\* usize::MAX, -1 read as signed: the literal's bytes.
AllOnesLE ==
    IF POINTER_SIZE = 4 THEN <<255, 255, 255, 255, 0, 0, 0, 0>>
    ELSE <<255, 255, 255, 255, 255, 255, 255, 255>>

\* 1 << (usize::BITS - 1), isize::MIN read as signed: the literal's bytes.
TopBitLE ==
    IF POINTER_SIZE = 4 THEN <<0, 0, 0, 128, 0, 0, 0, 0>>
    ELSE <<0, 0, 0, 0, 0, 0, 0, 128>>

\* unsafe fn memcpy() -> [u16; 2] {
\*     let a = [263u16, 9]; let mut b = [0u16; 2]; let c: usize = ..;
\*     copy_nonoverlapping(a.as_ptr(), b.as_mut_ptr(), c); b }
\* with c = 1 for n = 0, usize::MAX (-1 read as signed) for n = 1 and
\* 1 << (usize::BITS - 1) (isize::MIN read as signed) for n = 2.
MirMemcpy(n) ==
    Mir(<<>>,
        <<TArray(TUint(2), 2), TArray(TUint(2), 2), TRef(TUint(2)), TRef(TUint(2)), TUsize>>,
        <<TUnit>>, Some(TArray(TUint(2), 2)), <<
        BasicBlock(<<Assign(LvVar(0),
                            RvAggregate("Vec", 0, <<CInt(263, TUint(2)), CInt(9, TUint(2))>>)),
                     Assign(LvVar(2), RvRef(LvVar(0))),
                     Assign(LvVar(3), RvRef(LvVar(1))),
                     Assign(LvVar(4),
                            RvUse(CASE n = 0 -> CInt(1, TUsize)
                                    [] n = 1 -> OpConst(ConstIntegralLE(AllOnesLE), TUsize)
                                    [] OTHER -> OpConst(ConstIntegralLE(TopBitLE), TUsize)))>>,
                   TmCall(Intrinsic("copy_nonoverlapping", <<TUint(2)>>),
                          <<OpConsume(LvVar(2)), OpConsume(LvVar(3)), OpConsume(LvVar(4))>>,
                          Some(<<LvTemp(0), 1>>))),
        BasicBlock(<<Assign(LvReturnPointer, RvUse(OpConsume(LvVar(1))))>>, TmReturn) >>)

\* fn never() -> ! { let t = size_of::<u8>(); loop {} }
MirNever(n) ==
    Mir(<<>>, <<>>, <<TUsize>>, None, <<
        BasicBlock(<<>>, IF n = 0 THEN TmGoto(0)
                         ELSE TmCall(Intrinsic("size_of", <<U8>>), <<>>,
                                     Some(<<LvTemp(0), 0>>))) >>)

\* fn restart() -> usize: calls without a destination. Input 0 calls the
\* intrinsic size_of without one in its first block; input 1 stores block 1
\* by a call with a destination, jumps to block 2 and calls size_of without
\* one there; the other inputs call the function `noop` without one from
\* block 1.
MirRestart(n) ==
    Mir(<<>>, <<>>, <<TUsize>>, Some(TUsize),
        IF n = 0
        THEN << BasicBlock(<<>>, TmCall(Intrinsic("size_of", <<U8>>), <<>>, None)) >>
        ELSE << BasicBlock(<<>>, TmCall(Intrinsic("size_of", <<U32>>), <<>>,
                                        Some(<<LvTemp(0), 1>>))),
                BasicBlock(<<>>, IF n = 1 THEN TmGoto(2)
                                 ELSE TmCall(Fn("noop", <<>>), <<>>, None)),
                BasicBlock(<<>>, TmCall(Intrinsic("size_of", <<U8>>), <<>>, None)) >>)

\* fn noop() {}, with no local.
MirNoop == Mir(<<>>, <<>>, <<>>, None, << BasicBlock(<<>>, TmReturn) >>)

\* The names of the items that bear the attribute miri_run.
EntryNames ==
    {"arith", "branch", "call", "count", "sizes", "to_bool", "narrow", "generic",
     "dispatch", "option", "boxed", "pick", "closure", "unwind", "never",
     "rust_call", "tuple_size", "literal",
     "links", "shape", "index", "deref", "unsize",
     "memcpy", "nest", "restart"}

\* The items whose MIR the crate store holds.
CrateStoreNames == {"add_one", "id"}

\* The items of other crates: their MIR comes from the crate store, which
\* has none for `lost`.
ExternNames == CrateStoreNames \cup {"lost"}

\* The body of an item: mir_map for a local item, the crate store otherwise.
MirBody(def_id) ==
    CASE def_id.name = "arith" -> MirArith(def_id.n)
      [] def_id.name = "branch" -> MirBranch(def_id.n)
      [] def_id.name = "call" -> MirCall(def_id.n)
      [] def_id.name = "add_one" -> MirAddOne
      [] def_id.name = "count" -> MirCount(def_id.n)
      [] def_id.name = "count_down" -> MirCountDown
      [] def_id.name = "sizes" -> MirSizes(def_id.n)
      [] def_id.name = "to_bool" -> MirToBool(def_id.n)
      [] def_id.name = "narrow" -> MirNarrow(def_id.n)
      [] def_id.name = "cast" -> MirCast(def_id.n)
      [] def_id.name = "generic" -> MirGeneric(def_id.n)
      [] def_id.name = "id" -> MirId
      [] def_id.name = "dispatch" -> MirDispatch(def_id.n)
      [] def_id.name = "impl_get" -> MirImplGet(def_id.n)
      [] def_id.name = "option" -> MirOption(def_id.n)
      [] def_id.name = "boxed" -> MirBoxed(def_id.n)
      [] def_id.name = "pick" -> MirPick(def_id.n)
      [] def_id.name = "closure" -> MirClosure(def_id.n)
      [] def_id.name = "closure_body" -> MirClosureBody
      [] def_id.name = "rust_call" -> MirRustCall(def_id.n)
      [] def_id.name = "pair" -> MirPairBody
      [] def_id.name = "tuple_size" -> MirTupleSize(def_id.n)
      [] def_id.name = "unwind" -> MirUnwind(def_id.n)
      [] def_id.name = "literal" -> MirLiteral(def_id.n)
      [] def_id.name = "links" -> MirLinks(def_id.n)
      [] def_id.name = "shape" -> MirShape(def_id.n)
      [] def_id.name = "index" -> MirIndex(def_id.n)
      [] def_id.name = "deref" -> MirDeref(def_id.n)
      [] def_id.name = "unsize" -> MirUnsize(def_id.n)
      [] def_id.name = "memcpy" -> MirMemcpy(def_id.n)
      [] def_id.name = "nest" -> MirNest(def_id.n)
      [] def_id.name = "wrap" -> MirWrap
      [] def_id.name = "restart" -> MirRestart(def_id.n)
      [] def_id.name = "noop" -> MirNoop
      [] OTHER -> MirNever(def_id.n)

\* basic_block_data(block)
basic_block_data(mir, block) == mir.blocks[block + 1]

\* The representation of an LvalueTy: for a downcast, the one-variant
\* aggregate of that variant.
lvalue_ty_repr(st, lt) ==
    IF lt.k = "Ty" THEN ty_to_repr(lt.ty, current_substs(st))
    ELSE make_aggregate_repr(<<monomorphize(st, lt.ty).variants[lt.variant_index + 1]>>,
                             current_substs(st))

\* lvalue_repr(lvalue): the representation of the lvalue's type in the
\* current frame.
lvalue_repr(st, lv) == lvalue_ty_repr(st, lvalue_ty(current_frame(st).mir.body, lv))

\* The local at index idx of the frame.
local_at(st, frame, idx) ==
    IF idx + 1 \in 1..Len(frame.locals) THEN Res("none", st, frame.locals[idx + 1])
    ELSE Panic(st)

\* eval_lvalue for the Var case: the mutation that forgets var_offset.
eval_var_NoOffset(st, frame, i) == local_at(st, frame, i)

\* Var(i) => frame.locals[frame.var_offset + i]
eval_var(st, frame, i) == local_at(st, frame, frame.var_offset + i)

\* The Projection arm with the mutation that takes a field of any aggregate
\* from its first variant.
eval_projection_FirstVariant(st, base, base_repr, elem) ==
    CASE elem.k = "Field" ->
            IF /\ base_repr.k = "Aggregate"
               /\ elem.i + 1 \in 1..Len(base_repr.variants[1])
            THEN Res("none", st, PtrOffset(base, base_repr.variants[1][elem.i + 1].offset))
            ELSE Panic(st)
      [] elem.k = "Downcast" ->
            IF base_repr.k = "Aggregate"
            THEN Res("none", st, PtrOffset(base, base_repr.discr_size))
            ELSE Panic(st)
      [] elem.k = "Deref" -> ReadOf(st, read_ptr(st.memory, base))
      [] OTHER -> Panic(st)

\* The Projection arm of eval_lvalue, from the base pointer and its repr.
eval_projection(st, base, base_repr, elem) ==
    CASE elem.k = "Field" ->
            IF /\ base_repr.k = "Aggregate"
               /\ base_repr.discr_size = 0
               /\ elem.i + 1 \in 1..Len(base_repr.variants[1])
            THEN Res("none", st, PtrOffset(base, base_repr.variants[1][elem.i + 1].offset))
            ELSE Panic(st)
      [] elem.k = "Downcast" ->
            IF base_repr.k = "Aggregate"
            THEN Res("none", st, PtrOffset(base, base_repr.discr_size))
            ELSE Panic(st)
      [] elem.k = "Deref" -> ReadOf(st, read_ptr(st.memory, base))
      [] OTHER -> Panic(st)

\* The arms of eval_lvalue for the lvalues of the frame.
eval_frame_lvalue(st, frame, lv) ==
    CASE lv.k = "ReturnPointer" ->
            IF IsSome(frame.return_ptr) THEN Res("none", st, Unwrap(frame.return_ptr))
            ELSE Panic(st)
      [] lv.k = "Arg" -> local_at(st, frame, lv.i)
      [] lv.k = "Var" -> eval_var(st, frame, lv.i)
      [] lv.k = "Temp" -> local_at(st, frame, frame.temp_offset + lv.i)
      [] OTHER -> Panic(st)

RECURSIVE eval_lvalue(_, _)
\* eval_lvalue(lvalue): the pointer the lvalue names in the current frame.
eval_lvalue(st, lv) ==
    IF lv.k = "Projection"
    THEN Try(eval_lvalue(st, lv.base),
             LAMBDA b : eval_projection(st, b.val, lvalue_repr(st, lv.base), lv.elem))
    ELSE eval_frame_lvalue(st, current_frame(st), lv)

\* const_to_ptr for a constant of size bytes written by write(mem, ptr).
const_alloc(st, a, w) == Res(w.err, WithMem(st, w.mem), a.ptr)

\* const_to_ptr with the mutation that leaves the write of the constant out:
\* the allocation stays zeroed.
const_to_ptr_NoWrite(st, const_val) ==
    CASE const_val.k \in {"Integral", "IntegralLE", "Bool"} ->
            Let(allocate(st.memory, IF const_val.k = "Bool" THEN 1 ELSE 8),
                LAMBDA a : Res("none", WithMem(st, a.mem), a.ptr))
      [] OTHER -> Panic(st)

\* const_to_ptr(const_val): a fresh allocation holding the constant.
const_to_ptr(st, const_val) ==
    CASE const_val.k = "Integral" ->
            Let(allocate(st.memory, 8),
                LAMBDA a : const_alloc(st, a, write_uint(a.mem, a.ptr, const_val.v, 8)))
      [] const_val.k = "IntegralLE" ->
            Let(allocate(st.memory, 8),
                LAMBDA a : const_alloc(st, a, write_bytes(a.mem, a.ptr, const_val.v)))
      [] const_val.k = "Bool" ->
            Let(allocate(st.memory, 1),
                LAMBDA a : const_alloc(st, a, write_bool(a.mem, a.ptr, const_val.v = 1)))
      [] OTHER -> Panic(st)

\* eval_operand_and_repr(op): val is <<pointer, repr>>.
eval_operand_and_repr(st, op) ==
    IF op.k = "Consume"
    THEN Try(eval_lvalue(st, op.lv),
             LAMBDA p : Res("none", st, <<p.val, lvalue_repr(st, op.lv)>>))
    ELSE IF op.lit = "Value"
    THEN Try(const_to_ptr(st, op.value),
             LAMBDA c : Res("none", c.st, <<c.val, ty_to_repr(op.ty, current_substs(st))>>))
    ELSE Panic(st)

\* eval_operand(op): the pointer alone.
eval_operand(st, op) ==
    Try(eval_operand_and_repr(st, op), LAMBDA r : Res("none", r.st, r.val[1]))

\* operand_ty(operand): the operand's type, monomorphized.
operand_ty(st, op) ==
    IF op.k = "Consume"
    THEN monomorphize(st, lvalue_ty(current_frame(st).mir.body, op.lv).ty)
    ELSE monomorphize(st, op.ty)

RECURSIVE copy_fields_AtPayloadStart(_, _, _, _, _)
\* The loop of assign_to_aggregate with the mutation that forgets the
\* field's offset.
copy_fields_AtPayloadStart(st, after_discr, fields, operands, i) ==
    IF i > Len(fields) \/ i > Len(operands) THEN Done(st)
    ELSE Try(eval_operand(st, operands[i]), LAMBDA src :
         Try(Written(src.st, copy(src.st.memory, src.val, after_discr, fields[i].size)),
             LAMBDA c : copy_fields_AtPayloadStart(c.st, after_discr, fields, operands,
                                                   i + 1)))

RECURSIVE copy_fields(_, _, _, _, _)
\* The loop of assign_to_aggregate: operand i is copied to its field, from
\* the i-th pair of fields.zip(operands) on.
copy_fields(st, after_discr, fields, operands, i) ==
    IF i > Len(fields) \/ i > Len(operands) THEN Done(st)
    ELSE Try(eval_operand(st, operands[i]), LAMBDA src :
         Try(Written(src.st, copy(src.st.memory, src.val,
                                  PtrOffset(after_discr, fields[i].offset), fields[i].size)),
             LAMBDA c : copy_fields(c.st, after_discr, fields, operands, i + 1)))

\* assign_to_aggregate with the mutation that leaves the discriminant
\* unwritten.
assign_to_aggregate_NoTag(st, dest, dest_repr, variant, operands) ==
    IF dest_repr.k # "Aggregate" \/ variant + 1 \notin 1..Len(dest_repr.variants)
    THEN Panic(st)
    ELSE copy_fields(st, PtrOffset(dest, dest_repr.discr_size),
                     dest_repr.variants[variant + 1], operands, 1)

\* assign_to_aggregate(dest, dest_repr, variant, operands)
assign_to_aggregate(st, dest, dest_repr, variant, operands) ==
    IF dest_repr.k # "Aggregate" \/ variant + 1 \notin 1..Len(dest_repr.variants)
    THEN Panic(st)
    ELSE Try(IF dest_repr.discr_size > 0
             THEN Written(st, write_uint(st.memory, dest, variant, dest_repr.discr_size))
             ELSE Done(st),
             LAMBDA w : copy_fields(w.st, PtrOffset(dest, dest_repr.discr_size),
                                    dest_repr.variants[variant + 1], operands, 1))

RECURSIVE copy_elems(_, _, _, _, _)
\* The loop of the Vec aggregate: operand i is copied to element i.
copy_elems(st, dest, elem_size, operands, i) ==
    IF i > Len(operands) THEN Done(st)
    ELSE Try(eval_operand(st, operands[i]), LAMBDA src :
         Try(Written(src.st, copy(src.st.memory, src.val,
                                  PtrOffset(dest, (i - 1) * elem_size), elem_size)),
             LAMBDA c : copy_elems(c.st, dest, elem_size, operands, i + 1)))

\* pointee_type(ptr_ty): Some(ty) for a reference, a raw pointer or a box.
pointee_type(ptr_ty) == IF ptr_ty.k = "ref" THEN Some(ptr_ty.ty) ELSE None

\* The Unsize arm after the pointer is copied: the length of the array
\* behind the source pointer goes into the second word of the destination.
unsize_len(st, dest, src_pointee, dest_pointee) ==
    IF /\ IsSome(src_pointee) /\ IsSome(dest_pointee)
       /\ Unwrap(src_pointee).k = "array" /\ Unwrap(dest_pointee).k = "slice"
    THEN Written(st, write_uint(st.memory, PtrOffset(dest, POINTER_SIZE),
                                Unwrap(src_pointee).len, POINTER_SIZE))
    ELSE Panic(st)

\* The Cast arm with the mutation that has Misc copy as many bytes as the
\* type cast to takes.
eval_cast_MiscByWidth(st, dest, rv) ==
    Try(eval_operand(st, rv.op), LAMBDA src :
        CASE rv.kind = "Unsize" ->
                Try(Written(src.st, copy(src.st.memory, src.val, dest, 8)),
                    LAMBDA c : unsize_len(c.st, dest, pointee_type(operand_ty(st, rv.op)),
                                          pointee_type(rv.ty)))
          [] rv.kind = "Misc" ->
                Written(src.st, copy(src.st.memory, src.val, dest,
                                     ty_size(rv.ty, current_substs(st))))
          [] OTHER -> Panic(src.st))

\* The Cast arm of eval_assignment.
eval_cast(st, dest, rv) ==
    Try(eval_operand(st, rv.op), LAMBDA src :
        CASE rv.kind = "Unsize" ->
                Try(Written(src.st, copy(src.st.memory, src.val, dest, 8)),
                    LAMBDA c : unsize_len(c.st, dest, pointee_type(operand_ty(st, rv.op)),
                                          pointee_type(rv.ty)))
          [] rv.kind = "Misc" -> Written(src.st, copy(src.st.memory, src.val, dest, 8))
          [] OTHER -> Panic(src.st))

\* The BinaryOp arm of eval_assignment.
eval_binary(st, dest, rv) ==
    Try(eval_operand(st, rv.l), LAMBDA l :
    Try(ReadOf(l.st, read_primval(l.st.memory, l.val, operand_ty(l.st, rv.l))), LAMBDA lval :
    Try(eval_operand(lval.st, rv.r), LAMBDA r :
    Try(ReadOf(r.st, read_primval(r.st.memory, r.val, operand_ty(r.st, rv.r))), LAMBDA rval :
        Written(rval.st, write_primval(rval.st.memory, dest,
                                       binary_op(rv.bin_op, lval.val, rval.val)))))))

\* The UnaryOp arm of eval_assignment.
eval_unary(st, dest, rv) ==
    Try(eval_operand(st, rv.op), LAMBDA p :
    Try(ReadOf(p.st, read_primval(p.st.memory, p.val, operand_ty(p.st, rv.op))), LAMBDA v :
        Written(v.st, write_primval(v.st.memory, dest, unary_op(rv.un_op, v.val)))))

\* The Aggregate arm of eval_assignment.
eval_aggregate(st, dest, dest_repr, rv) ==
    CASE rv.kind = "Tuple" -> assign_to_aggregate(st, dest, dest_repr, 0, rv.ops)
      [] rv.kind = "Adt" -> assign_to_aggregate(st, dest, dest_repr, rv.variant, rv.ops)
      [] rv.kind = "Vec" ->
            IF dest_repr.k = "Array" /\ dest_repr.length = Len(rv.ops)
            THEN copy_elems(st, dest, dest_repr.elem_size, rv.ops, 1)
            ELSE Panic(st)
      [] OTHER -> assign_to_aggregate(st, dest, dest_repr, 0, rv.ops)

\* The Box arm with the mutation that writes the pointer without
\* allocating: dest points to the allocation made last.
eval_box_NoAllocate(st, dest, rv) ==
    Written(st, write_ptr(st.memory, dest, Pointer(Len(st.memory.allocs) - 1, 0)))

\* The Box arm of eval_assignment: allocate size(ty), write the pointer to dest.
eval_box(st, dest, rv) ==
    Let(allocate(st.memory, ty_size(rv.ty, current_substs(st))), LAMBDA a :
        Written(st, write_ptr(a.mem, dest, a.ptr)))

\* The match of eval_assignment with the mutation that has Ref copy the
\* eight bytes at the place instead of writing the pointer to it.
assign_rvalue_RefCopies(st, dest, dest_repr, rv) ==
    CASE rv.k = "Use" ->
            Try(eval_operand(st, rv.op), LAMBDA src :
                Written(src.st, copy(src.st.memory, src.val, dest, ReprSize(dest_repr))))
      [] rv.k = "BinaryOp" -> eval_binary(st, dest, rv)
      [] rv.k = "UnaryOp" -> eval_unary(st, dest, rv)
      [] rv.k = "Aggregate" -> eval_aggregate(st, dest, dest_repr, rv)
      [] rv.k = "Ref" ->
            Try(eval_lvalue(st, rv.lv), LAMBDA p :
                Written(st, copy(st.memory, p.val, dest, 8)))
      [] rv.k = "Box" -> eval_box(st, dest, rv)
      [] rv.k = "Cast" -> eval_cast(st, dest, rv)
      [] OTHER -> Panic(st)

\* The match of eval_assignment on the rvalue, dest and dest_repr evaluated.
assign_rvalue(st, dest, dest_repr, rv) ==
    CASE rv.k = "Use" ->
            Try(eval_operand(st, rv.op), LAMBDA src :
                Written(src.st, copy(src.st.memory, src.val, dest, ReprSize(dest_repr))))
      [] rv.k = "BinaryOp" -> eval_binary(st, dest, rv)
      [] rv.k = "UnaryOp" -> eval_unary(st, dest, rv)
      [] rv.k = "Aggregate" -> eval_aggregate(st, dest, dest_repr, rv)
      [] rv.k = "Ref" ->
            Try(eval_lvalue(st, rv.lv), LAMBDA p :
                Written(st, write_ptr(st.memory, dest, p.val)))
      [] rv.k = "Box" -> eval_box(st, dest, rv)
      [] rv.k = "Cast" -> eval_cast(st, dest, rv)
      [] OTHER -> Panic(st)

\* eval_assignment(lvalue, rvalue)
eval_assignment(st, lvalue, rv) ==
    Try(eval_lvalue(st, lvalue), LAMBDA d :
        assign_rvalue(st, d.val, lvalue_repr(st, lvalue), rv))

(***************************************************************************)
(* Frames: push_stack_frame, pop_stack_frame, load_mir, trait_method.      *)
(***************************************************************************)
RECURSIVE alloc_locals(_, _, _, _)
\* The closure of push_stack_frame's map: one allocation per local type, of
\* the size of the type, in order.  The value is <<memory, locals>>.
alloc_locals(mem, tys, substs, locals) ==
    IF tys = <<>> THEN <<mem, locals>>
    ELSE Let(allocate(mem, ty_size(Head(tys), substs)), LAMBDA a :
             alloc_locals(a.mem, Tail(tys), substs, Append(locals, a.ptr)))

\* arg_tys.chain(var_tys).chain(temp_tys)
local_tys(mir) == mir.arg_decls \o mir.var_decls \o mir.temp_decls

\* self.stack.push(Frame { .. }) over the locals l allocated for it.
push_frame(st, mir, return_ptr, l, var_offset, temp_offset) ==
    [st EXCEPT !.memory = l[1],
               !.stack = Append(st.stack, Frame(mir, START_BLOCK, return_ptr, l[2],
                                                var_offset, temp_offset))]

\* push_stack_frame with the mutation that starts the temporaries where the
\* variables start.
push_stack_frame_TempAtVars(st, mir, return_ptr) ==
    push_frame(st, mir, return_ptr,
               alloc_locals(st.memory, local_tys(mir.body), current_substs(st), <<>>),
               Len(mir.body.arg_decls), Len(mir.body.arg_decls))

\* push_stack_frame(mir, return_ptr)
push_stack_frame(st, mir, return_ptr) ==
    push_frame(st, mir, return_ptr,
               alloc_locals(st.memory, local_tys(mir.body), current_substs(st), <<>>),
               Len(mir.body.arg_decls),
               Len(mir.body.arg_decls) + Len(mir.body.var_decls))

\* Vec::pop: the sequence without its last element; an empty one stays so.
Pop(seq) == IF seq = <<>> THEN seq ELSE SubSeq(seq, 1, Len(seq) - 1)

\* pop_stack_frame with the mutation that also drops the caller's frame.
pop_stack_frame_Two(st) == [st EXCEPT !.stack = Pop(Pop(st.stack))]

\* pop_stack_frame with the mutation that deallocates the frame's locals and
\* what was allocated after them.
pop_stack_frame_Deallocate(st) ==
    IF st.stack = <<>> \/ st.stack[Len(st.stack)].locals = <<>>
    THEN [st EXCEPT !.stack = Pop(st.stack)]
    ELSE [st EXCEPT !.stack = Pop(st.stack),
                    !.memory = [allocs |-> SubSeq(st.memory.allocs, 1,
                                    st.stack[Len(st.stack)].locals[1].alloc_id)]]

\* pop_stack_frame(): the top frame is dropped; its locals stay allocated.
pop_stack_frame(st) == [st EXCEPT !.stack = Pop(st.stack)]

\* as_local_node_id(def_id).is_some()
is_local(def_id) == def_id.name \notin ExternNames

\* cs.maybe_get_item_mir(def_id): the body the crate store holds, if any.
maybe_get_item_mir(def_id) ==
    IF def_id.name \in CrateStoreNames THEN Some(MirBody(def_id)) ELSE None

\* mir_cache.get(&def_id): the Rc of the entry, if any.
mir_cache_get(cache, def_id) ==
    IF \E e \in cache : e.def_id = def_id
    THEN Some((CHOOSE e \in cache : e.def_id = def_id).rc)
    ELSE None

\* mir_cache.insert(def_id, rc): the entry of the key is replaced.
mir_cache_insert(cache, def_id, rc) ==
    {e \in cache : e.def_id # def_id} \cup {[def_id |-> def_id, rc |-> rc]}

\* load_mir on a miss: the crate store is read, the body enters a new Rc
\* (named by the number of the read) and the cache.
load_mir_miss(st, def_id) ==
    Let([st EXCEPT !.cstore_log = Append(st.cstore_log, def_id)], LAMBDA s1 :
        IF ~IsSome(maybe_get_item_mir(def_id)) THEN Panic(s1)
        ELSE Res("none",
                 [s1 EXCEPT !.mir_cache =
                     mir_cache_insert(s1.mir_cache, def_id, Len(s1.cstore_log))],
                 CachedMir("Owned", def_id, Len(s1.cstore_log),
                           Unwrap(maybe_get_item_mir(def_id)))))

\* load_mir with the mutation that never looks into the cache.
load_mir_NoLookup(st, def_id) ==
    IF is_local(def_id)
    THEN Res("none", st, CachedMir("Ref", def_id, 0, MirBody(def_id)))
    ELSE load_mir_miss(st, def_id)

\* load_mir(def_id): val is the CachedMir; a body of another crate enters
\* mir_cache on its first use.
load_mir(st, def_id) ==
    IF is_local(def_id)
    THEN Res("none", st, CachedMir("Ref", def_id, 0, MirBody(def_id)))
    ELSE IF IsSome(mir_cache_get(st.mir_cache, def_id))
    THEN Res("none", st,
             CachedMir("Owned", def_id, Unwrap(mir_cache_get(st.mir_cache, def_id)),
                       MirBody(def_id)))
    ELSE load_mir_miss(st, def_id)

\* The index of the type among those TyOfInput yields: the impl that Self selects.
ImplIndex(ty) == IF ty = U8 THEN 0 ELSE IF ty = PairU8U32 THEN 1 ELSE 2

\* trait_method(def_id, substs): the method of the impl selected by Self
\* (the VtableImpl case), with the impl's substitutions.
trait_method(def_id, substs) ==
    <<Def("impl_get", ImplIndex(Unwrap(substs.self_ty))), Substs(None, substs.types)>>

\* Substs::subst: the substitutions of a callee seen from the caller.
SubstSubsts(substs, cur) ==
    Substs([i \in 1..Len(substs.self_ty) |-> SubstTy(substs.self_ty[i], cur)],
           [i \in 1..Len(substs.types) |-> SubstTy(substs.types[i], cur)])

(***************************************************************************)
(* Terminators.                                                            *)
(***************************************************************************)
\* TerminatorTarget
TargetBlock(b) == [k |-> "Block", block |-> b]
TargetCall == [k |-> "Call", block |-> 0]
TargetReturn == [k |-> "Return", block |-> 0]

\* Ok(target) after the steps r of an arm.
Target(r, target) == Res(r.err, r.st, target)

RECURSIVE MulLE(_, _, _)
\* The little-endian bytes of bytes * k + carry, as many as bytes has, and
\* after them the carry out of the last byte.
MulLE(bytes, k, carry) ==
    IF bytes = <<>> THEN <<carry>>
    ELSE <<(Head(bytes) * k + carry) % 256>>
             \o MulLE(Tail(bytes), k, (Head(bytes) * k + carry) \div 256)

\* `count as usize * elem_size` on the bytes of count (the cast of an isize
\* to usize keeps them): the product modulo 2^(8 * pointer_size), and whether
\* the multiplication overflowed usize.
usize_mul(count, elem_size) ==
    [overflow |-> MulLE(count, elem_size, 0)[Len(count) + 1] # 0,
     bytes |-> SubSeq(MulLE(count, elem_size, 0), 1, Len(count))]

\* A usize as the byte count handed to copy.  No allocation is as long as
\* 2^16 bytes: every usize from 2^16 on is passed as 2^16.
usize_len(bytes) ==
    IF \E i \in 3..Len(bytes) : bytes[i] # 0 THEN 256 * 256
    ELSE LEVal(SubSeq(bytes, 1, 2))

\* The copy_nonoverlapping arm of call_intrinsic.  read_int followed by
\* `as usize` is the read of the count's bytes; the multiplication panics on
\* overflow in a build with overflow checks and wraps in one without.
intrinsic_copy(st, substs, args) ==
    Try(eval_operand(st, args[1]), LAMBDA src_arg :
    Try(eval_operand(src_arg.st, args[2]), LAMBDA dest_arg :
    Try(eval_operand(dest_arg.st, args[3]), LAMBDA count_arg :
    Try(ReadOf(count_arg.st, read_ptr(count_arg.st.memory, src_arg.val)), LAMBDA src :
    Try(ReadOf(src.st, read_ptr(src.st.memory, dest_arg.val)), LAMBDA dest :
    Try(ReadOf(dest.st, get_bytes(dest.st.memory, count_arg.val, POINTER_SIZE)), LAMBDA count :
    Let(usize_mul(count.val, ty_size(substs.types[1], current_substs(st))), LAMBDA size :
        IF size.overflow /\ overflow_checks THEN Panic(count.st)
        ELSE Written(count.st,
                     copy(count.st.memory, src.val, dest.val, usize_len(size.bytes))))))))))

\* The offset arm of call_intrinsic.
intrinsic_offset(st, dest, substs, args) ==
    Try(eval_operand(st, args[1]), LAMBDA ptr_arg :
    Try(eval_operand(ptr_arg.st, args[2]), LAMBDA offset_arg :
    Try(ReadOf(offset_arg.st, read_ptr(offset_arg.st.memory, ptr_arg.val)), LAMBDA ptr :
    Try(ReadOf(ptr.st, read_int(ptr.st.memory, offset_arg.val, POINTER_SIZE)), LAMBDA offset :
        Written(offset.st,
                write_ptr(offset.st.memory, dest,
                          PtrOffset(ptr.val,
                                    offset.val * ty_size(substs.types[1],
                                                         current_substs(st)))))))))

\* The match of call_intrinsic on the name, dest and dest_size evaluated.
intrinsic_arm(st, dest, dest_size, name, substs, args) ==
    CASE name = "copy_nonoverlapping" -> intrinsic_copy(st, substs, args)
      [] name = "forget" -> Done(st)
      [] name = "offset" -> intrinsic_offset(st, dest, substs, args)
      [] name = "size_of" ->
            Written(st, write_uint(st.memory, dest,
                                   ty_size(substs.types[1], current_substs(st)), dest_size))
      [] name = "transmute" ->
            Try(eval_operand(st, args[1]), LAMBDA src :
                Written(src.st, copy(src.st.memory, src.val, dest, dest_size)))
      [] name = "uninit" -> Done(st)
      [] OTHER -> Panic(st)

\* call_intrinsic with the mutation that pushes a frame as a Rust call does.
call_intrinsic_Push(st, name, substs, args) ==
    Res("none", [st EXCEPT !.stack = Append(st.stack, current_frame(st)),
                           !.substs_stack = Append(st.substs_stack, substs)],
        TargetCall)

\* call_intrinsic(name, substs, args): the result goes to the current
\* frame's ReturnPointer.
call_intrinsic(st, name, substs, args) ==
    Try(eval_lvalue(st, LvReturnPointer), LAMBDA d :
        Target(intrinsic_arm(st, d.val, ReprSize(lvalue_repr(st, LvReturnPointer)),
                             name, substs, args),
               TargetCall))

ArgSrc(src, size) == [src |-> src, size |-> size]

RECURSIVE eval_args(_, _, _, _)
\* The first loop of the Rust call: every argument evaluated, in order, to
\* its pointer and the size of its representation.
eval_args(st, args, i, arg_srcs) ==
    IF i > Len(args) THEN Res("none", st, arg_srcs)
    ELSE Try(eval_operand_and_repr(st, args[i]), LAMBDA r :
             eval_args(r.st, args, i + 1,
                       Append(arg_srcs, ArgSrc(r.val[1], ReprSize(r.val[2])))))

\* The fields of the tuple at last_src as argument sources.
tuple_fields(st, arg_srcs, last_src, last_repr) ==
    IF /\ last_repr.k = "Aggregate"
       /\ last_repr.discr_size = 0
       /\ Len(last_repr.variants) = 1
    THEN Res("none", st,
             arg_srcs \o [j \in 1..Len(last_repr.variants[1]) |->
                            ArgSrc(PtrOffset(last_src, last_repr.variants[1][j].offset),
                                   last_repr.variants[1][j].size)])
    ELSE Panic(st)

\* flatten_last with the mutation that leaves out arg_srcs.pop().
flatten_last_NoPop(st, args, arg_srcs) ==
    Try(eval_operand_and_repr(st, args[Len(args)]), LAMBDA last :
        tuple_fields(last.st, arg_srcs, last.val[1], last.val[2]))

\* The "rust-call" adjustment: the last argument, a tuple, is replaced by
\* its fields.
flatten_last(st, args, arg_srcs) ==
    Try(eval_operand_and_repr(st, args[Len(args)]), LAMBDA last :
        tuple_fields(last.st, Pop(arg_srcs), last.val[1], last.val[2]))

RECURSIVE copy_args_ShiftedLocal(_, _, _)
\* copy_args with the mutation that writes argument i to local i + 1.
copy_args_ShiftedLocal(st, arg_srcs, i) ==
    IF i > Len(arg_srcs) THEN Done(st)
    ELSE IF i + 1 \notin 1..Len(current_frame(st).locals) THEN Panic(st)
    ELSE Try(Written(st, copy(st.memory, arg_srcs[i].src, current_frame(st).locals[i + 1],
                              arg_srcs[i].size)),
             LAMBDA c : copy_args_ShiftedLocal(c.st, arg_srcs, i + 1))

RECURSIVE copy_args(_, _, _)
\* The last loop of the Rust call: source i is copied to the callee's
\* locals[i], size bytes.
copy_args(st, arg_srcs, i) ==
    IF i > Len(arg_srcs) THEN Done(st)
    ELSE IF i \notin 1..Len(current_frame(st).locals) THEN Panic(st)
    ELSE Try(Written(st, copy(st.memory, arg_srcs[i].src, current_frame(st).locals[i],
                              arg_srcs[i].size)),
             LAMBDA c : copy_args(c.st, arg_srcs, i + 1))

\* The sources of the arguments of a Rust or RustCall call: val is arg_srcs.
call_arg_srcs(st, abi, args) ==
    Try(eval_args(st, args, 1, <<>>), LAMBDA a :
        IF abi = "RustCall" /\ args # <<>> THEN flatten_last(a.st, args, a.val) ELSE a)

\* self.substs_stack.push(substs)
push_substs(st, substs) == [st EXCEPT !.substs_stack = Append(st.substs_stack, substs)]

\* The Rust call once the callee (def_id, substs) is resolved.
call_resolved(st, resolved, abi, args, return_ptr) ==
    Try(call_arg_srcs(st, abi, args), LAMBDA a :
    Try(load_mir(a.st, resolved[1]), LAMBDA m :
        Target(copy_args(push_stack_frame(push_substs(m.st, resolved[2]), m.val, return_ptr),
                         a.val, 1),
               TargetCall)))

\* The Abi::Rust | Abi::RustCall arm of the Call terminator.
call_rust(st, func, args, return_ptr) ==
    call_resolved(st,
                  IF IsSome(func.substs.self_ty) THEN trait_method(func.def_id, func.substs)
                  ELSE <<func.def_id, func.substs>>,
                  func.abi, args, return_ptr)

\* The Call arm with the mutation that does not store the target in the
\* caller's next_block.
set_next_block_Skip(st, target) == st

\* self.current_frame_mut().next_block = target
set_next_block(st, target) ==
    [st EXCEPT !.stack[Len(st.stack)].next_block = target]

\* The match of the Call arm on the type of the callee.
call_func(st, func, args, return_ptr) ==
    IF func.k # "FnDef" THEN Panic(st)
    ELSE CASE func.abi = "RustIntrinsic" ->
                call_intrinsic(st, func.def_id.name, func.substs, args)
           [] func.abi \in {"Rust", "RustCall"} -> call_rust(st, func, args, return_ptr)
           [] OTHER -> Panic(st)

\* operand_ty(func): the callee with its substitutions monomorphized.
func_ty(st, func) == [func EXCEPT !.substs = SubstSubsts(@, current_substs(st))]

\* The Call arm of eval_terminator.
eval_call(st, term) ==
    IF IsSome(term.destination)
    THEN Let(set_next_block(st, Unwrap(term.destination)[2]), LAMBDA st1 :
         Try(eval_lvalue(st1, Unwrap(term.destination)[1]), LAMBDA lv :
             call_func(st1, func_ty(st1, term.func), term.args, Some(lv.val))))
    ELSE call_func(st, func_ty(st, term.func), term.args, None)

RECURSIVE switch_int(_, _, _, _, _, _)
\* The loop of SwitchInt over values: val is the target block.
switch_int(st, discr_val, discr_size, values, targets, index) ==
    IF index > Len(values) THEN Res("none", st, TargetBlock(targets[Len(targets)]))
    ELSE Try(const_to_ptr(st, values[index]), LAMBDA c :
         Try(ReadOf(c.st, read_uint(c.st.memory, c.val, discr_size)), LAMBDA v :
             IF discr_val = v.val THEN Res("none", v.st, TargetBlock(targets[index]))
             ELSE switch_int(v.st, discr_val, discr_size, values, targets, index + 1)))

\* eval_switch_int with the mutation that reads one byte whatever the size of
\* the discriminant.
eval_switch_int_OneByte(st, term, discr_ptr, discr_size) ==
    Try(ReadOf(st, read_uint(st.memory, discr_ptr, 1)), LAMBDA d :
        switch_int(st, d.val, 1, term.values, term.targets, 1))

\* The SwitchInt arm from the pointer and the size of the discriminant.
eval_switch_int(st, term, discr_ptr, discr_size) ==
    Try(ReadOf(st, read_uint(st.memory, discr_ptr, discr_size)), LAMBDA d :
        switch_int(st, d.val, discr_size, term.values, term.targets, 1))

\* The Switch arm from the pointer and the representation of the ADT.
eval_switch(st, term, adt_ptr, adt_repr) ==
    IF adt_repr.k # "Aggregate" THEN Panic(st)
    ELSE Try(ReadOf(st, read_uint(st.memory, adt_ptr, adt_repr.discr_size)), LAMBDA d :
             IF d.val + 1 \notin 1..Len(term.targets) THEN Panic(st)
             ELSE Res("none", st, TargetBlock(term.targets[d.val + 1])))

\* eval_if with the mutation that takes every non-zero byte for true.
eval_if_NonZero(st, term) ==
    Try(eval_operand(st, term.cond), LAMBDA c :
    Try(ReadOf(c.st, read_uint(c.st.memory, c.val, 1)), LAMBDA b :
        Res("none", b.st,
            TargetBlock(IF b.val # 0 THEN term.then_target ELSE term.else_target))))

\* The If arm of eval_terminator.
eval_if(st, term) ==
    Try(eval_operand(st, term.cond), LAMBDA c :
    Try(ReadOf(c.st, read_bool(c.st.memory, c.val)), LAMBDA b :
        Res("none", b.st,
            TargetBlock(IF b.val THEN term.then_target ELSE term.else_target))))

\* eval_terminator with the mutation that lets Goto store its target in the
\* frame's next_block.
eval_terminator_GotoStores(st, term) ==
    CASE term.k = "Return" -> Res("none", st, TargetReturn)
      [] term.k = "Goto" ->
            Res("none", set_next_block(st, term.target), TargetBlock(term.target))
      [] term.k = "If" -> eval_if(st, term)
      [] term.k = "SwitchInt" ->
            Try(eval_lvalue(st, term.discr), LAMBDA p :
                eval_switch_int(st, term, p.val, ReprSize(lvalue_repr(st, term.discr))))
      [] term.k = "Switch" ->
            Try(eval_lvalue(st, term.discr), LAMBDA p :
                eval_switch(st, term, p.val, lvalue_repr(st, term.discr)))
      [] term.k = "Call" -> eval_call(st, term)
      [] term.k = "Drop" -> Res("none", st, TargetBlock(term.target))
      [] OTHER -> Panic(st)

\* eval_terminator(terminator): val is the TerminatorTarget.
eval_terminator(st, term) ==
    CASE term.k = "Return" -> Res("none", st, TargetReturn)
      [] term.k = "Goto" -> Res("none", st, TargetBlock(term.target))
      [] term.k = "If" -> eval_if(st, term)
      [] term.k = "SwitchInt" ->
            Try(eval_lvalue(st, term.discr), LAMBDA p :
                eval_switch_int(st, term, p.val, ReprSize(lvalue_repr(st, term.discr))))
      [] term.k = "Switch" ->
            Try(eval_lvalue(st, term.discr), LAMBDA p :
                eval_switch(st, term, p.val, lvalue_repr(st, term.discr)))
      [] term.k = "Call" -> eval_call(st, term)
      [] term.k = "Drop" -> Res("none", st, TargetBlock(term.target))
      [] OTHER -> Panic(st)

(***************************************************************************)
(* The state: the interpreter, the position of `run` in the current block, *)
(* and what the driver holds.                                              *)
(***************************************************************************)
VARIABLES
    entry,          \* the item the driver interprets
    return_ptr,     \* the driver's return_ptr for it
    memory,         \* Interpreter::memory
    stack,          \* Interpreter::stack
    substs_stack,   \* Interpreter::substs_stack
    mir_cache,      \* Interpreter::mir_cache: the entries [def_id, rc]
    cstore_log,     \* history: the DefIds whose MIR was read from the crate store
    status,         \* "new", "running", then "ok" | "err" (run returned) | "panic"
    error,          \* the error kind run returned
    current_block,  \* run's current_block
    stmt_idx,       \* the statements of current_block already executed
    pending_calls,  \* history: the destination of the call that pushed each callee frame
    call_substs,    \* history: the substitutions of the call that pushed each callee frame
    local_allocs,   \* history: the allocations of the locals of every frame pushed so far
    last_step,      \* history: the step taken last (the statement or terminator)
    last_result,    \* history: the outcome of the statement or terminator evaluated last
    repr_cache,     \* Interpreter::repr_cache: the entries [ty, ref]
    repr_arena,     \* Interpreter::repr_arena: the Reprs allocated, a reference is an index
    layout_log,     \* history: the layout requests made and what each returned
    mem_op,         \* history: the Memory operation made last, with its outcome
    printer         \* the driver's print_allocation_tree: its calls in progress, its output

\* The layout cache and arena, with the history of the requests.  `run` takes
\* its layouts from the function ty_to_repr, which the cache memoises; the
\* cache itself is exercised by the layout requests of LayoutSpec below.
layout_vars == <<repr_cache, repr_arena, layout_log>>

\* A place of codegen (PlaceRef) holding an enum: its layout, the value in
\* its niche field, and the history of the operation made last on it (op
\* with the variant index set, whether set_discr stored or aborted, and the
\* discriminant get_discr returned).
VARIABLE place

\* The interpreter has no such place.
NoPlace == [k |-> "none"]

vars == <<place, pointer_size, overflow_checks, entry, return_ptr, memory, stack, substs_stack, mir_cache, cstore_log, status, error,
          current_block, stmt_idx, pending_calls, call_substs, local_allocs, last_step, last_result,
          repr_cache, repr_arena, layout_log, mem_op, printer>>

\* A Memory operation as the history keeps it: the operation k with its
\* arguments (the pointer p, the pointer q or source, the integer v, the byte
\* count size), its outcome err, the pointer or integer it read, and n, the
\* operations made so far.
MemOp(k, p, q, v, size, err, ptr, val, n) ==
    [k |-> k, p |-> p, q |-> q, v |-> v, size |-> size,
     err |-> err, ptr |-> ptr, val |-> val, n |-> n]

NoMemOp == MemOp("none", Pointer(0, 0), Pointer(0, 0), 0, 0, "none", Pointer(0, 0), 0, 0)

\* print_allocation_tree at work: status is "none" before the driver prints,
\* "printing", then "done", or "overflow" when the recursion outgrows the
\* process stack; stack holds the calls in progress, each with the targets
\* its loop has still to visit; out is the allocations printed, in order.
Printer(st, stk, out) == [status |-> st, stack |-> stk, out |-> out]

\* The interpreter as the evaluation functions take it.
Self == Interp(memory, stack, substs_stack, mir_cache, cstore_log)

SetInterp(st) ==
    /\ memory' = st.memory
    /\ stack' = st.stack
    /\ substs_stack' = st.substs_stack
    /\ mir_cache' = st.mir_cache
    /\ cstore_log' = st.cstore_log

\* The items bearing miri_run.
EntryDefs == {Def(name, n) : name \in EntryNames, n \in 0..MaxInput}

\* Interpreter::new on a target whose pointers are size bytes wide, in a
\* build with or without overflow checks: nothing allocated, nothing cached,
\* no frame.
NewInterpreterFor(size, checks) ==
    /\ pointer_size = size
    /\ overflow_checks = checks
    /\ return_ptr = None
    /\ memory = MemNew
    /\ stack = <<>>
    /\ substs_stack = <<>>
    /\ mir_cache = {}
    /\ cstore_log = <<>>
    /\ status = "new"
    /\ error = "none"
    /\ current_block = START_BLOCK
    /\ stmt_idx = 0
    /\ pending_calls = <<>>
    /\ call_substs = <<>>
    /\ local_allocs = {}
    /\ last_step = [k |-> "none"]
    /\ last_result = "none"
    /\ repr_cache = {}
    /\ repr_arena = <<>>
    /\ layout_log = <<>>
    /\ mem_op = NoMemOp
    /\ printer = Printer("none", <<>>, <<>>)

\* Interpreter::new: Memory::new() with the pointer width of the host, in a
\* debug build.
NewInterpreter == NewInterpreterFor(HostPointerSize, TRUE) /\ place = NoPlace

\* Interpreter::new for one entry item.
Init ==
    /\ entry \in EntryDefs
    /\ NewInterpreter

\* The head of run's outer loop with the mutation that stops one frame early.
outer_loop_StopEarly(stk) ==
    IF Len(stk) <= 1 THEN [status |-> "ok", block |-> START_BLOCK]
    ELSE [status |-> "running", block |-> stk[Len(stk)].next_block]

\* The head of run's outer loop: Ok(()) once the stack is empty, otherwise
\* the block to execute is the top frame's next_block.
outer_loop(stk) ==
    IF stk = <<>> THEN [status |-> "ok", block |-> START_BLOCK]
    ELSE [status |-> "running", block |-> stk[Len(stk)].next_block]

\* continue 'outer
ContinueOuter(stk) ==
    /\ status' = outer_loop(stk).status
    /\ current_block' = outer_loop(stk).block
    /\ stmt_idx' = 0
    /\ error' = error

\* A history of calls follows the frames pushed and popped by a terminator.
TrackFrames(hist, stk, entry_of_call) ==
    IF Len(stk) > Len(stack) THEN Append(hist, entry_of_call)
    ELSE IF Len(stk) < Len(stack)
    THEN SubSeq(hist, 1, Len(stk) - 1)
    ELSE hist

\* The (def_id, substs) a Call terminator resolves its callee to, under the
\* substitutions of the frame that executes it.
CalleeOf(st, term) ==
    Let(func_ty(st, term.func), LAMBDA func :
        IF IsSome(func.substs.self_ty) THEN trait_method(func.def_id, func.substs)
        ELSE <<func.def_id, func.substs>>)

\* The histories of calls follow the frames pushed and popped by a terminator.
TrackCalls(stk, destination, substs) ==
    /\ pending_calls' = TrackFrames(pending_calls, stk, destination)
    /\ call_substs' = TrackFrames(call_substs, stk, substs)

\* The history of locals gains those of the frame a step has pushed.
TrackLocals(stk) ==
    local_allocs' =
        IF Len(stk) > Len(stack)
        THEN local_allocs \cup {stk[Len(stk)].locals[i].alloc_id :
                                    i \in 1..Len(stk[Len(stk)].locals)}
        ELSE local_allocs

\* try!: an error ends run with that error; a panic aborts the interpreter.
Fail(err) ==
    /\ status' = IF err = "panic" THEN "panic" ELSE "err"
    /\ error' = err
    /\ UNCHANGED <<current_block, stmt_idx>>

\* The driver's return buffer for a body: val is return_ptr.
alloc_return(st, mir) ==
    IF IsSome(mir.return_ty)
    THEN Let(allocate(st.memory, ty_size(Unwrap(mir.return_ty), current_substs(st))),
             LAMBDA a : Res("none", WithMem(st, a.mem), Some(a.ptr)))
    ELSE Res("none", st, None)

\* The driver's push_stack_frame(CachedMir::Ref(mir), return_ptr).
start_frame(mir, rp) ==
    Res("none", push_stack_frame(rp.st, mir, rp.val), rp.val)

\* interpret_start_points for the item def_id: val is return_ptr.
interpret_start(st, def_id, mir) ==
    start_frame(CachedMir("Ref", def_id, 0, mir), alloc_return(st, mir))

\* The driver after its push_stack_frame: it calls run.
AfterStart(r) ==
    /\ return_ptr' = r.val
    /\ SetInterp(r.st)
    /\ ContinueOuter(r.st.stack)

\* interpret_start_points for the entry item: the return buffer, the first
\* frame, and the call of run.
Start ==
    /\ status = "new"
    /\ AfterStart(interpret_start(Self, entry, MirBody(entry)))
    /\ last_step' = [k |-> "Start"]
    /\ TrackLocals(stack')
    /\ UNCHANGED <<place, pointer_size, overflow_checks, entry, pending_calls, call_substs, last_result>>
    /\ UNCHANGED <<layout_vars, mem_op, printer>>

\* The block run is executing and the statement or terminator it is at.
Running == status = "running"
BlockData == basic_block_data(current_frame(Self).mir.body, current_block)
AtStatement == Running /\ stmt_idx < Len(BlockData.statements)
AtTerminator == Running /\ stmt_idx = Len(BlockData.statements)
Stmt == BlockData.statements[stmt_idx + 1]
Term == BlockData.terminator

\* run after a statement, with the mutation that drops the error (no try!).
AfterStatement_NoTry(r) ==
    /\ SetInterp(r.st)
    /\ last_result' = r.err
    /\ stmt_idx' = stmt_idx + 1
    /\ UNCHANGED <<status, error, current_block>>

\* run after try!(self.eval_assignment(..)): the next statement, or the error.
AfterStatement(r) ==
    /\ SetInterp(r.st)
    /\ last_result' = r.err
    /\ IF r.err # "none" THEN Fail(r.err)
       ELSE /\ stmt_idx' = stmt_idx + 1
            /\ UNCHANGED <<status, error, current_block>>

\* One statement of the current block.
ExecStatement ==
    /\ AtStatement
    /\ AfterStatement(eval_assignment(Self, Stmt.lv, Stmt.rv))
    /\ last_step' = [k |-> "Statement", lv |-> Stmt.lv, rv |-> Stmt.rv]
    /\ UNCHANGED <<place, pointer_size, overflow_checks, entry, return_ptr, pending_calls, call_substs, local_allocs>>
    /\ UNCHANGED <<layout_vars, mem_op, printer>>

\* The Return arm with the mutation that leaves the callee's substitutions
\* in force.
run_return_KeepSubsts(st) == pop_stack_frame(st)

\* The Return arm of run's match: both stacks are popped.
run_return(st) == [pop_stack_frame(st) EXCEPT !.substs_stack = Pop(@)]

\* run after try!(self.eval_terminator(..)): the match on the target.
AfterTerminator(r) ==
    /\ last_result' = r.err
    /\ IF r.err # "none"
       THEN /\ SetInterp(r.st)
            /\ Fail(r.err)
       ELSE CASE r.val.k = "Block" ->
                   /\ SetInterp(r.st)
                   /\ current_block' = r.val.block
                   /\ stmt_idx' = 0
                   /\ UNCHANGED <<status, error>>
              [] r.val.k = "Return" ->
                   /\ SetInterp(run_return(r.st))
                   /\ ContinueOuter(run_return(r.st).stack)
              [] OTHER ->
                   /\ SetInterp(r.st)
                   /\ ContinueOuter(r.st.stack)

\* The terminator of the current block, once run is at it.
ExecTerminator ==
    /\ AfterTerminator(eval_terminator(Self, Term))
    /\ TrackCalls(stack', IF Term.k = "Call" THEN Term.destination ELSE None,
                  IF Term.k = "Call" THEN CalleeOf(Self, Term)[2] ELSE EmptySubsts)
    /\ TrackLocals(stack')
    /\ last_step' = Term
    /\ UNCHANGED <<place, pointer_size, overflow_checks, entry, return_ptr>>
    /\ UNCHANGED <<layout_vars, mem_op, printer>>

\* One action for every kind of terminator.
TermReturn == AtTerminator /\ Term.k = "Return" /\ ExecTerminator
TermGoto == AtTerminator /\ Term.k = "Goto" /\ ExecTerminator
TermIf == AtTerminator /\ Term.k = "If" /\ ExecTerminator
TermSwitchInt == AtTerminator /\ Term.k = "SwitchInt" /\ ExecTerminator
TermSwitch == AtTerminator /\ Term.k = "Switch" /\ ExecTerminator
\* The depth of the call stack is bounded by MaxStack.
TermCall == AtTerminator /\ Term.k = "Call" /\ Len(stack) < MaxStack /\ ExecTerminator
TermDrop == AtTerminator /\ Term.k = "Drop" /\ ExecTerminator
TermResume == AtTerminator /\ Term.k = "Resume" /\ ExecTerminator

\* The depth of recursion the process stack holds.
MaxPrintDepth == 4

RECURSIVE relocation_values(_)
\* alloc.relocations.values(): the targets, in the order of their offsets.
relocation_values(relocs) ==
    IF relocs = {} THEN <<>>
    ELSE Let(CHOOSE r \in relocs : \A q \in relocs : r.off <= q.off, LAMBDA r :
             <<r.id>> \o relocation_values(relocs \ {r}))

\* A call of print_allocation_tree(memory, alloc_id) at the head of its loop.
print_call(mem, alloc_id) ==
    [alloc_id |-> alloc_id, todo |-> relocation_values(AllocOf(mem, alloc_id).relocations)]

\* One step of print_allocation_tree: the call on top returns when its loop
\* is over, and otherwise calls itself for the next target, which prints it.
print_step(mem, p) ==
    Let(p.stack[Len(p.stack)], LAMBDA top :
        IF top.todo = <<>>
        THEN Printer(IF Len(p.stack) = 1 THEN "done" ELSE "printing", Pop(p.stack), p.out)
        ELSE IF Len(p.stack) >= MaxPrintDepth
        THEN Printer("overflow", p.stack, p.out)
        ELSE Printer("printing",
                     Append(SubSeq(p.stack, 1, Len(p.stack) - 1),
                            [alloc_id |-> top.alloc_id, todo |-> Tail(top.todo)])
                         \o <<print_call(mem, Head(top.todo))>>,
                     Append(p.out, Head(top.todo))))

\* The driver after run().unwrap(): it prints the result, if there is one.
PrintResult ==
    /\ status = "ok"
    /\ printer.status = "none"
    /\ printer' = IF IsSome(return_ptr)
                  THEN Printer("printing", <<print_call(memory, Unwrap(return_ptr).alloc_id)>>,
                               <<Unwrap(return_ptr).alloc_id>>)
                  ELSE Printer("done", <<>>, <<>>)
    /\ UNCHANGED <<place, pointer_size, overflow_checks, entry, return_ptr, memory, stack, substs_stack, mir_cache, cstore_log,
                   status, error, current_block, stmt_idx, pending_calls, call_substs, local_allocs, last_step,
                   last_result, layout_vars, mem_op>>

\* print_allocation_tree goes on.
PrintStep ==
    /\ status = "ok"
    /\ printer.status = "printing"
    /\ printer' = print_step(memory, printer)
    /\ UNCHANGED <<place, pointer_size, overflow_checks, entry, return_ptr, memory, stack, substs_stack, mir_cache, cstore_log,
                   status, error, current_block, stmt_idx, pending_calls, call_substs, local_allocs, last_step,
                   last_result, layout_vars, mem_op>>

Next ==
    \/ Start
    \/ ExecStatement
    \/ TermReturn
    \/ TermGoto
    \/ TermIf
    \/ TermSwitchInt
    \/ TermSwitch
    \/ TermCall
    \/ TermDrop
    \/ TermResume
    \/ PrintResult
    \/ PrintStep

Spec == Init /\ [][Next]_vars

\* The driver is one sequential program: once run has returned it goes on
\* to print, and print_allocation_tree goes on while it has a step to take.
FairSpec == Spec /\ WF_vars(PrintResult) /\ WF_vars(PrintStep)

\* Interpreter::new for one entry item on a target of either pointer width,
\* in a debug or a release build.
TargetInit ==
    /\ entry \in EntryDefs
    /\ \E size \in PointerSizes, checks \in BOOLEAN : NewInterpreterFor(size, checks)
    /\ place = NoPlace

\* interpret_start_points on the targets of PointerSizes, in either build.
TargetSpec == TargetInit /\ [][Next]_vars


(***************************************************************************)
(* ty_to_repr with its cache and arena, as the code runs it: the layout    *)
(* state lc is threaded through the nested requests for field types.       *)
(***************************************************************************)
\* At most MaxLayoutCalls layout requests are made to one interpreter.
MaxLayoutCalls == 3

LayoutState(cache, arena) == [cache |-> cache, arena |-> arena]
LayoutRes(err, lc, val) == [err |-> err, lc |-> lc, val |-> val]

\* repr_cache.get(ty): the entries of the cache for ty.
cache_get(lc, ty) == {e \in lc.cache : e.ty = ty}

\* repr_arena.alloc(repr): the new reference is the index of the Repr.
arena_alloc(lc, repr) == [lc EXCEPT !.arena = Append(@, repr)]

\* repr_cache.insert(ty, ref): an entry for the same key is replaced.
cache_insert(lc, ty, ref) ==
    [lc EXCEPT !.cache = {e \in @ : e.ty # ty} \cup {[ty |-> ty, ref |-> ref]}]

RECURSIVE cached_ty_to_repr(_, _, _)
RECURSIVE field_sizes(_, _, _, _, _)
RECURSIVE variant_sizes(_, _, _, _, _)

\* The inner loop of make_aggregate_repr: ty_size of every field type.
field_sizes(lc, tys, substs, i, sizes) ==
    IF i > Len(tys) THEN LayoutRes("none", lc, sizes)
    ELSE Try(cached_ty_to_repr(lc, tys[i], substs), LAMBDA r :
             field_sizes(r.lc, tys, substs, i + 1,
                         Append(sizes, ReprSize(r.lc.arena[r.val]))))

\* The outer loop of make_aggregate_repr over the variants lo..hi, in order:
\* the field sizes of every variant.  The range is halved so that the depth
\* of the evaluation stays logarithmic in the number of variants.
variant_sizes(lc, variants, substs, lo, hi) ==
    IF lo > hi THEN LayoutRes("none", lc, <<>>)
    ELSE IF lo = hi
    THEN Try(field_sizes(lc, variants[lo], substs, 1, <<>>), LAMBDA f :
             LayoutRes("none", f.lc, <<f.val>>))
    ELSE Try(variant_sizes(lc, variants, substs, lo, (lo + hi) \div 2), LAMBDA l :
         Try(variant_sizes(l.lc, variants, substs, (lo + hi) \div 2 + 1, hi), LAMBDA r :
             LayoutRes("none", r.lc, l.val \o r.val)))

\* make_aggregate_repr(variant_fields): val is the Repr.
cached_make_aggregate_repr(lc, variants, substs) ==
    Try(variant_sizes(lc, variants, substs, 1, Len(variants)), LAMBDA s :
        LayoutRes("none", s.lc, aggregate_of_sizes(s.val)))

\* The match of ty_to_repr on the monomorphized type: val is the Repr.
cached_repr_of(lc, ty, substs) ==
    CASE ty.k = "bool" -> LayoutRes("none", lc, ReprPrimitive(1))
      [] ty.k \in {"isize", "usize"} -> LayoutRes("none", lc, ReprPrimitive(POINTER_SIZE))
      [] ty.k \in {"int", "uint"} -> LayoutRes("none", lc, ReprPrimitive(ty.w))
      [] ty.k = "tuple" -> cached_make_aggregate_repr(lc, <<ty.fields>>, substs)
      [] ty.k = "adt" -> cached_make_aggregate_repr(lc, ty.variants, substs)
      [] ty.k = "array" ->
            Try(cached_ty_to_repr(lc, ty.elem, substs), LAMBDA e :
                LayoutRes("none", e.lc, ReprArray(ReprSize(e.lc.arena[e.val]), ty.len)))
      [] ty.k = "ref" ->
            LayoutRes("none", lc,
                      IF IsSized(ty.ty) THEN ReprPrimitive(POINTER_SIZE)
                      ELSE ReprPrimitive(POINTER_SIZE * 2))
      [] ty.k = "closure" -> cached_make_aggregate_repr(lc, <<ty.upvars>>, substs)
      [] OTHER -> LayoutRes("panic", lc, ReprPanic)

\* The Repr computed for ty, allocated in the arena and entered in the cache.
cache_fill(lc, ty, substs) ==
    Try(cached_repr_of(lc, ty, substs), LAMBDA r :
        LayoutRes("none",
                  cache_insert(arena_alloc(r.lc, r.val), ty, Len(r.lc.arena) + 1),
                  Len(r.lc.arena) + 1))

\* cache_lookup with the mutation that never finds an entry.
cache_lookup_Miss(lc, ty, substs) == cache_fill(lc, ty, substs)

\* ty_to_repr after monomorphize: the cached reference, or a new layout.
cache_lookup(lc, ty, substs) ==
    IF cache_get(lc, ty) # {}
    THEN LayoutRes("none", lc, (CHOOSE e \in cache_get(lc, ty) : TRUE).ref)
    ELSE cache_fill(lc, ty, substs)

\* ty_to_repr(ty) under substs: val is the reference to the Repr.
cached_ty_to_repr(lc, ty0, substs) == cache_lookup(lc, SubstTy(ty0, substs), substs)

\* The Downcast arm of lvalue_repr: the one-variant layout of the fields of
\* a variant, allocated in the arena and not cached.
downcast_repr(lc, field_tys, substs) ==
    Try(cached_make_aggregate_repr(lc, <<field_tys>>, substs), LAMBDA r :
        LayoutRes("none", arena_alloc(r.lc, r.val), Len(r.lc.arena) + 1))

\* Types of 256 and of 257 variants without fields.
Enum256 == TAdt([v \in 1..256 |-> <<>>])
Enum257 == TAdt([v \in 1..257 |-> <<>>])
\* enum Void {}
EnumVoid == TAdt(<<>>)

\* The layout requests: a type and the substitutions in force.
LayoutRequests ==
    {[ty |-> ty, substs |-> EmptySubsts] :
        ty \in {U8, TUnit, PairU8U32, OptionU8, EnumVoid, Enum256, Enum257, Nested,
                TArray(PairU8U32, 2), TFloat}}
    \cup {[ty |-> TParam(0), substs |-> Substs(None, <<PairU8U32>>)]}

\* The requests for the layout of a variant: an ADT and a variant index.
DowncastRequests == {[ty |-> OptionU8, variant_index |-> 1]}

\* The interpreter is alive: no layout request has panicked.
LayoutAlive ==
    /\ status = "new"
    /\ Len(layout_log) < MaxLayoutCalls
    /\ \A i \in 1..Len(layout_log) : layout_log[i].err = "none"

\* What a layout request leaves: the cache, the arena, and its entry in the
\* history.
AfterLayout(r, call, ty) ==
    /\ repr_cache' = r.lc.cache
    /\ repr_arena' = r.lc.arena
    /\ layout_log' = Append(layout_log,
                            [call |-> call, ty |-> ty, err |-> r.err,
                             ref |-> IF r.err = "none" THEN r.val ELSE 0])

\* One call of ty_to_repr(ty).
LayoutCall ==
    /\ LayoutAlive
    /\ \E rq \in LayoutRequests :
          AfterLayout(cached_ty_to_repr(LayoutState(repr_cache, repr_arena), rq.ty, rq.substs),
                      "ty_to_repr", SubstTy(rq.ty, rq.substs))
    /\ UNCHANGED <<place, pointer_size, overflow_checks, entry, return_ptr, memory, stack, substs_stack, mir_cache, cstore_log, status, error,
                   current_block, stmt_idx, pending_calls, call_substs, local_allocs, last_step, last_result, mem_op, printer>>

\* One call of lvalue_repr on a downcast lvalue.
LayoutDowncast ==
    /\ LayoutAlive
    /\ \E rq \in DowncastRequests :
          AfterLayout(downcast_repr(LayoutState(repr_cache, repr_arena),
                                    rq.ty.variants[rq.variant_index + 1], EmptySubsts),
                      "lvalue_repr", rq.ty)
    /\ UNCHANGED <<place, pointer_size, overflow_checks, entry, return_ptr, memory, stack, substs_stack, mir_cache, cstore_log, status, error,
                   current_block, stmt_idx, pending_calls, call_substs, local_allocs, last_step, last_result, mem_op, printer>>

\* One interpreter answering layout requests.
LayoutInit ==
    /\ entry = Def("sizes", 0)
    /\ NewInterpreter

LayoutNext ==
    \/ LayoutCall
    \/ LayoutDowncast

LayoutSpec == LayoutInit /\ [][LayoutNext]_vars

\* Every cached layout is the layout the function ty_to_repr gives.
CacheMemoises ==
    \A e \in repr_cache : repr_arena[e.ref] = ty_to_repr(e.ty, EmptySubsts)
(***************************************************************************)
(* Properties of the call protocol.                                        *)
(***************************************************************************)
\* The top frame and its body.
TopFrame == current_frame(Self)
TopBody == TopFrame.mir.body

\* run is at a terminator of the given kind.
AtReturn == AtTerminator /\ Term.k = "Return"
AtCall == AtTerminator /\ Term.k = "Call" /\ Term.func.k = "FnDef"
AtIntrinsicCall == AtCall /\ Term.func.abi = "RustIntrinsic"
AtRustCall == AtCall /\ Term.func.abi \in {"Rust", "RustCall"}

\* C1: at every step of run, from the entry frame the driver pushes on, the
\* substitution stack holds exactly one entry per call frame:
\* len(substs_stack) = len(stack).
C1_SubstsPerFrame == status # "new" => Len(substs_stack) = Len(stack)

\* C2: a Return terminator removes exactly the top frame: the stack is one
\* frame shorter, every remaining frame is unchanged and so is the memory.
C2_ReturnPopsTop ==
    [][AtReturn =>
        /\ Len(stack') = Len(stack) - 1
        /\ \A i \in 1..Len(stack') : stack'[i] = stack[i]
        /\ memory' = memory]_vars

\* A Return has popped a callee and left its caller on the stack.
C2_Witness == last_step.k = "Return" /\ Len(stack) >= 1 /\ status = "running"

\* The target of the call that pushed the frame at depth d, if it has one.
PendingTarget(d) == Unwrap(pending_calls[d - 1])[2]

\* C3: for a Rust or RustCall call with destination (lv, target) made in
\* frame F, nothing of F runs while the callee is on the stack (a step
\* changes no frame below the top, and F waits with next_block = target),
\* and when Return pops the callee the block run executes next, in F, is
\* target.
C3_ResumeAtTarget ==
    [][/\ \A i \in 1..(Len(stack) - 1) : i <= Len(stack') => stack'[i] = stack[i]
       /\ \A d \in 2..Len(stack') :
            IsSome(pending_calls'[d - 1]) =>
                stack'[d - 1].next_block = Unwrap(pending_calls'[d - 1])[2]
       /\ (AtReturn /\ Len(stack) >= 2 /\ IsSome(pending_calls[Len(stack) - 1])) =>
            /\ status' = "running"
            /\ Len(stack') = Len(stack) - 1
            /\ current_block' = PendingTarget(Len(stack))
            /\ stmt_idx' = 0]_vars

\* The callee of a call with a destination has returned, and run is in the
\* caller at the target of the call.
C3_Witness ==
    /\ last_step.k = "Return"
    /\ status = "running"
    /\ current_block # START_BLOCK
    /\ stmt_idx = 0
    /\ TopFrame.next_block = current_block

\* C4: an intrinsic call executes in place: the lengths of the call stack
\* and of the substitution stack do not change, and run continues in the
\* same frame at the target of the call's destination.
C4_IntrinsicInPlace ==
    [][AtIntrinsicCall =>
        /\ Len(stack') = Len(stack)
        /\ Len(substs_stack') = Len(substs_stack)
        /\ (status' = "running" /\ IsSome(Term.destination)) =>
            /\ current_block' = Unwrap(Term.destination)[2]
            /\ stmt_idx' = 0
            /\ stack'[Len(stack')].locals = TopFrame.locals]_vars

\* An intrinsic call has succeeded and run goes on in the same frame.
C4_Witness ==
    /\ last_step.k = "Call"
    /\ last_step.func.abi = "RustIntrinsic"
    /\ last_result = "none"
    /\ status = "running"
    /\ current_block = Unwrap(last_step.destination)[2]

\* The pointer and the size of the layout of lvalue lv in the top frame.
DestPtr(lv) == eval_lvalue(Self, lv).val
DestSize(lv) == ReprSize(lvalue_repr(Self, lv))

\* C5: the result of an intrinsic call with destination lvalue L (size_of,
\* transmute) is written at the pointer L evaluates to in the calling
\* frame, with the size of L's layout.
C5_IntrinsicWritesDestination ==
    [][(AtIntrinsicCall /\ IsSome(Term.destination) /\ last_result' = "none") =>
        /\ Term.func.def_id.name = "size_of" =>
             read_uint(memory', DestPtr(Unwrap(Term.destination)[1]),
                       DestSize(Unwrap(Term.destination)[1])).val
               = ty_size(Term.func.substs.types[1], current_substs(Self))
        /\ Term.func.def_id.name = "transmute" =>
             BytesAt(memory', DestPtr(Unwrap(Term.destination)[1]),
                     DestSize(Unwrap(Term.destination)[1]))
               = BytesAt(memory, eval_operand(Self, Term.args[1]).val,
                         DestSize(Unwrap(Term.destination)[1]))]_vars

\* C6: run returns Ok(()) exactly when the call stack has become empty: it
\* is never Ok while a frame is on the stack, and once the stack is empty run
\* is no longer at a statement or a terminator.
C6_OkIffStackEmpty ==
    /\ status = "ok" => stack = <<>>
    /\ status = "running" => stack # <<>>
    /\ (stack = <<>> /\ status # "new") => status = "ok"

\* run has returned Ok after the Return of the entry frame.
C6_Witness == status = "ok" /\ last_step.k = "Return" /\ stack = <<>>

\* C7: when a statement or a terminator yields an error, run returns that
\* error at once: after the failing step nothing is evaluated and no frame
\* is pushed or popped.
C7_ErrorStopsRun ==
    [][/\ last_result' \notin {"none", "panic"} =>
            (status' = "err" /\ error' = last_result')
       /\ status # "err"]_vars

\* A statement of a callee has failed: run has returned the error with the
\* caller and the callee still on the stack.
C7_Witness ==
    /\ status = "err"
    /\ error = "OutOfBounds"
    /\ last_step.k = "Statement"
    /\ Len(stack) = 2

\* The types of the locals of a body: arguments, variables, temporaries.
LocalTys(mir) == local_tys(mir)

\* Frame f, on top of mem_after, is as push_stack_frame(mir, rp) makes it
\* from the memory mem_before under the substitutions substs.
FreshFrame(f, rp, mem_before, mem_after, substs) ==
    /\ f.next_block = START_BLOCK
    /\ f.return_ptr = rp
    /\ Len(f.locals) = Len(f.mir.body.arg_decls) + Len(f.mir.body.var_decls)
                         + Len(f.mir.body.temp_decls)
    /\ f.var_offset = Len(f.mir.body.arg_decls)
    /\ f.temp_offset = Len(f.mir.body.arg_decls) + Len(f.mir.body.var_decls)
    /\ \A j \in 1..Len(f.locals) :
            /\ f.locals[j].offset = 0
            /\ ~HasAlloc(mem_before, f.locals[j].alloc_id)
            /\ HasAlloc(mem_after, f.locals[j].alloc_id)
            /\ Len(AllocOf(mem_after, f.locals[j].alloc_id).bytes)
                 = ty_size(LocalTys(f.mir.body)[j], substs)
    /\ \A j, l \in 1..Len(f.locals) :
            j # l => f.locals[j].alloc_id # f.locals[l].alloc_id

\* The return pointer a call hands to push_stack_frame: its destination
\* lvalue evaluated in the caller.
CallReturnPtr ==
    IF IsSome(Term.destination) THEN Some(DestPtr(Unwrap(Term.destination)[1])) ELSE None

\* C8: push_stack_frame pushes exactly one frame: next_block is START_BLOCK,
\* return_ptr is the pointer given, locals holds one allocation per
\* argument, variable and temporary, each of the size of its type, and
\* var_offset = #args, temp_offset = #args + #vars.
C8_PushStackFrame ==
    [][/\ Len(stack') <= Len(stack) + 1
       /\ Len(stack') = Len(stack) + 1 =>
            /\ \A i \in 1..Len(stack) : stack'[i].locals = stack[i].locals
            /\ FreshFrame(stack'[Len(stack')],
                          IF status = "new" THEN return_ptr' ELSE CallReturnPtr,
                          memory, memory',
                          IF substs_stack' = <<>> THEN EmptySubsts
                          ELSE substs_stack'[Len(substs_stack')])]_vars

\* A call has pushed a frame of a body with arguments, variables and
\* temporaries.
C8_Witness ==
    /\ last_step.k = "Call"
    /\ Len(stack) = 2
    /\ TopBody.arg_decls # <<>>
    /\ TopBody.var_decls # <<>>
    /\ TopBody.temp_decls # <<>>
    /\ TopFrame.temp_offset = 2

\* The local lvalues of the top frame that are in range.
LocalLvalues ==
    {LvArg(i) : i \in 0..(Len(TopBody.arg_decls) - 1)}
        \cup {LvVar(i) : i \in 0..(Len(TopBody.var_decls) - 1)}
        \cup {LvTemp(i) : i \in 0..(Len(TopBody.temp_decls) - 1)}

\* C9: in the top frame Arg(i) is locals[i], Var(i) is locals[var_offset+i],
\* Temp(i) is locals[temp_offset+i] and ReturnPointer is the frame's
\* return_ptr; two different local lvalues in range never name the same
\* pointer.
C9_LocalsAddressing ==
    status = "running" =>
        /\ \A i \in 0..(Len(TopBody.arg_decls) - 1) :
                eval_lvalue(Self, LvArg(i)) = Res("none", Self, TopFrame.locals[i + 1])
        /\ \A i \in 0..(Len(TopBody.var_decls) - 1) :
                eval_lvalue(Self, LvVar(i))
                    = Res("none", Self, TopFrame.locals[TopFrame.var_offset + i + 1])
        /\ \A i \in 0..(Len(TopBody.temp_decls) - 1) :
                eval_lvalue(Self, LvTemp(i))
                    = Res("none", Self, TopFrame.locals[TopFrame.temp_offset + i + 1])
        /\ IsSome(TopFrame.return_ptr) =>
                eval_lvalue(Self, LvReturnPointer)
                    = Res("none", Self, Unwrap(TopFrame.return_ptr))
        /\ \A l1, l2 \in LocalLvalues :
                l1 # l2 => eval_lvalue(Self, l1).val # eval_lvalue(Self, l2).val

\* run is in a frame that has an argument, a variable and a temporary.
C9_Witness ==
    /\ status = "running"
    /\ TopBody.arg_decls # <<>>
    /\ TopBody.var_decls # <<>>
    /\ TopBody.temp_decls # <<>>
    /\ stmt_idx > 0

\* The sources of the arguments of the call run is at, evaluated in the caller.
CallArgs == call_arg_srcs(Self, Term.func.abi, Term.args)

\* An allocation as Memory::allocate makes it: n zero bytes, no relocation.
FreshAllocation(n) == AllocOf(allocate(MemNew, n).mem, 0)

\* C10: after a Rust-ABI Call succeeds exactly one new frame is on top, its
\* return_ptr is what the destination lvalue evaluated to in the caller, the
\* first size_i bytes of the callee's locals[i] are the bytes of the i-th
\* evaluated argument, and the callee's variables and temporaries are as
\* allocated.
C10_RustCallCopiesArgs ==
    [][(AtCall /\ Term.func.abi = "Rust" /\ last_result' = "none") =>
        /\ Len(stack') = Len(stack) + 1
        /\ stack'[Len(stack')].return_ptr = CallReturnPtr
        /\ Len(CallArgs.val) = Len(Term.args)
        /\ \A i \in 1..Len(Term.args) :
              BytesAt(memory', stack'[Len(stack')].locals[i], CallArgs.val[i].size)
                = BytesAt(CallArgs.st.memory, CallArgs.val[i].src, CallArgs.val[i].size)
        /\ \A j \in (Len(Term.args) + 1)..Len(stack'[Len(stack')].locals) :
              AllocOf(memory', stack'[Len(stack')].locals[j].alloc_id)
                = FreshAllocation(ty_size(LocalTys(stack'[Len(stack')].mir.body)[j],
                                          substs_stack'[Len(substs_stack')]))]_vars

\* A Rust call has copied a non-zero argument into the callee's first local,
\* and the callee has a variable.
C10_Witness ==
    /\ last_step.k = "Call"
    /\ last_step.func.abi = "Rust"
    /\ last_result = "none"
    /\ last_step.args # <<>>
    /\ TopBody.var_decls # <<>>
    /\ AllocOf(memory, TopFrame.locals[1].alloc_id).bytes # FreshAllocation(1).bytes


(***************************************************************************)
(* Properties of the terminators.                                          *)
(***************************************************************************)
\* The i-th argument of the call run is at, evaluated on its own in the
\* caller: its pointer, its representation and its bytes.
ArgEval(i) == eval_operand_and_repr(Self, Term.args[i])
ArgPtr(i) == ArgEval(i).val[1]
ArgRepr(i) == ArgEval(i).val[2]
ArgBytes(i) == BytesAt(ArgEval(i).st.memory, ArgPtr(i), ReprSize(ArgRepr(i)))

\* run is at a "rust-call" call with at least one argument.
AtFlattenedCall == AtCall /\ Term.func.abi = "RustCall" /\ Term.args # <<>>

\* The last argument of the call is a single-variant aggregate.
LastIsTuple ==
    /\ ArgRepr(Len(Term.args)).k = "Aggregate"
    /\ Len(ArgRepr(Len(Term.args)).variants) = 1

\* The fields of the last argument of the call.
LastFields == ArgRepr(Len(Term.args)).variants[1]

\* C11: a RustCall call with k >= 1 arguments whose last argument is a
\* single-variant aggregate of m fields passes k-1+m sources to the callee:
\* the first k-1 arguments in order, then the m fields of the last argument
\* in field order, source k-1+j being the last argument's pointer moved by the
\* offset of field j, with that field's size; the callee's locals receive
\* their bytes.  A last argument that is no single-variant aggregate is
\* rejected (the interpreter panics).
C11_RustCallFlattens ==
    [][AtFlattenedCall =>
        IF LastIsTuple
        THEN /\ CallArgs.err = "none"
             /\ Len(CallArgs.val) = Len(Term.args) - 1 + Len(LastFields)
             /\ \A i \in 1..(Len(Term.args) - 1) :
                   /\ CallArgs.val[i].size = ReprSize(ArgRepr(i))
                   /\ Term.args[i].k = "Consume" => CallArgs.val[i].src = ArgPtr(i)
             /\ \A j \in 1..Len(LastFields) :
                   /\ CallArgs.val[Len(Term.args) - 1 + j].size = LastFields[j].size
                   /\ Term.args[Len(Term.args)].k = "Consume" =>
                        CallArgs.val[Len(Term.args) - 1 + j].src
                            = PtrOffset(ArgPtr(Len(Term.args)), LastFields[j].offset)
             /\ last_result' = "none" =>
                   /\ Len(stack') = Len(stack) + 1
                   /\ \A i \in 1..(Len(Term.args) - 1) :
                         BytesAt(memory', stack'[Len(stack')].locals[i], ReprSize(ArgRepr(i)))
                            = ArgBytes(i)
                   /\ \A j \in 1..Len(LastFields) :
                         BytesAt(memory',
                                 stack'[Len(stack')].locals[Len(Term.args) - 1 + j],
                                 LastFields[j].size)
                            = SubSeq(ArgBytes(Len(Term.args)), LastFields[j].offset + 1,
                                     LastFields[j].offset + LastFields[j].size)
        ELSE last_result' = "panic" /\ status' = "panic" /\ Len(stack') = Len(stack)]_vars

\* A "rust-call" call of two arguments, the last a tuple of two fields, has
\* entered its callee with three arguments, the last of them non-zero.
C11_Witness ==
    /\ last_step.k = "Call"
    /\ last_step.func.abi = "RustCall"
    /\ last_result = "none"
    /\ Len(last_step.args) = 2
    /\ Len(TopBody.arg_decls) = 3
    /\ BytesAt(memory, TopFrame.locals[3], 1) # <<0>>

\* A "rust-call" call whose last argument is no tuple has been rejected.
C11_Rejected ==
    /\ last_step.k = "Call"
    /\ last_step.func.abi = "RustCall"
    /\ last_result = "panic"

\* The value of the integral constant c read as an unsigned integer of size
\* bytes.
ConstAtWidth(c, size) == LEVal(LEBytes(c.v, size))

\* The unsigned integer of DestSize(lv) bytes stored at lvalue lv.
UintAt(lv) == LEVal(BytesAt(memory, DestPtr(lv), DestSize(lv)))

\* The indices of the values of the SwitchInt run is at that equal its
\* discriminant.
SwitchHits ==
    {i \in 1..Len(Term.values) : ConstAtWidth(Term.values[i], DestSize(Term.discr))
                                    = UintAt(Term.discr)}

\* C12: SwitchInt reads the discriminant as an unsigned integer of
\* size(discr) bytes and jumps to targets[i] for the least i such that
\* values[i], read at the same width, equals it; when no value matches it
\* jumps to the last element of targets.
C12_SwitchIntTarget ==
    [][(AtTerminator /\ Term.k = "SwitchInt" /\ last_result' = "none") =>
        /\ status' = "running"
        /\ stack' = stack
        /\ stmt_idx' = 0
        /\ current_block' =
              IF SwitchHits = {} THEN Term.targets[Len(Term.targets)]
              ELSE Term.targets[CHOOSE i \in SwitchHits : \A j \in SwitchHits : i <= j]]_vars

\* A SwitchInt over a four-byte discriminant has taken the target of the
\* first of two equal values, which is neither the first nor the last target.
C12_Witness ==
    /\ last_step.k = "SwitchInt"
    /\ last_result = "none"
    /\ Len(last_step.values) = 4
    /\ last_step.values[3] = last_step.values[4]
    /\ current_block = last_step.targets[3]
    /\ DestSize(last_step.discr) = 4

\* A SwitchInt has taken the otherwise target.
C12_Otherwise ==
    /\ last_step.k = "SwitchInt"
    /\ last_result = "none"
    /\ current_block = last_step.targets[Len(last_step.targets)]
    /\ stmt_idx = 0

\* The condition operand of the If run is at, evaluated, and the byte it
\* points to.
CondEval == eval_operand(Self, Term.cond)
CondByte == BytesAt(CondEval.st.memory, CondEval.val, 1)[1]

\* C13: If jumps to the then-target when the byte at the condition operand
\* is 1 and to the else-target when it is 0; for any other byte run returns
\* the error InvalidBool and no jump is taken.
C13_IfReadsBool ==
    [][(AtTerminator /\ Term.k = "If" /\ CondEval.err = "none") =>
        /\ stack' = stack
        /\ CASE CondByte = 1 ->
                    /\ last_result' = "none" /\ status' = "running"
                    /\ current_block' = Term.then_target /\ stmt_idx' = 0
             [] CondByte = 0 ->
                    /\ last_result' = "none" /\ status' = "running"
                    /\ current_block' = Term.else_target /\ stmt_idx' = 0
             [] OTHER ->
                    /\ last_result' = "InvalidBool"
                    /\ status' = "err" /\ error' = "InvalidBool"
                    /\ current_block' = current_block /\ stmt_idx' = stmt_idx]_vars

\* An If over a byte that is neither 0 nor 1 has ended run with InvalidBool.
C13_Witness ==
    /\ last_step.k = "If"
    /\ status = "err"
    /\ error = "InvalidBool"
    /\ BytesAt(memory, eval_operand(Self, last_step.cond).val, 1)[1] \notin {0, 1}

\* An If has taken its then-target, another its else-target.
C13_Then == last_step.k = "If" /\ last_result = "none" /\ current_block = last_step.then_target
C13_Else == last_step.k = "If" /\ last_result = "none" /\ current_block = last_step.else_target

\* The step taken last assigned an Adt aggregate to the place the Switch run
\* is at reads, a place of a multi-variant type.
SwitchAfterAggregate ==
    /\ AtTerminator
    /\ Term.k = "Switch"
    /\ last_step.k = "Statement"
    /\ last_step.lv = Term.discr
    /\ last_step.rv.k = "Aggregate"
    /\ last_step.rv.kind = "Adt"
    /\ last_result = "none"
    /\ lvalue_repr(Self, Term.discr).k = "Aggregate"
    /\ Len(lvalue_repr(Self, Term.discr).variants) > 1

\* C14: after Aggregate(Adt, variant v) has been assigned to a place P of a
\* multi-variant type, the tag of width discr_size at offset 0 of P is v, and
\* a Switch on P, no write to P intervening, jumps to targets[v].
C14_SwitchReadsWrittenTag ==
    [][SwitchAfterAggregate =>
        /\ LEVal(BytesAt(memory, DestPtr(Term.discr),
                         lvalue_repr(Self, Term.discr).discr_size)) = last_step.rv.variant
        /\ last_result' = "none"
        /\ status' = "running"
        /\ current_block' = Term.targets[last_step.rv.variant + 1]
        /\ stmt_idx' = 0]_vars

\* A Switch on a place that was just assigned variant 1 of a two-variant
\* type has taken targets[1].
C14_Witness ==
    /\ last_step.k = "Switch"
    /\ last_result = "none"
    /\ Len(last_step.targets) = 2
    /\ current_block = last_step.targets[2]
    /\ lvalue_repr(Self, last_step.discr).discr_size = 1
    /\ BytesAt(memory, DestPtr(last_step.discr), 1) = <<1>>

(***************************************************************************)
(* Properties of the layouts.                                              *)
(***************************************************************************)
\* The aggregate layouts make_aggregate_repr has built so far.
ArenaAggregates ==
    {repr_arena[i] : i \in {j \in 1..Len(repr_arena) : repr_arena[j].k = "Aggregate"}}

\* The smallest of 1, 2, 4, 8 bytes able to tag n variants.
SmallestTag(n) ==
    IF n <= 256 THEN 1
    ELSE IF n <= 65536 THEN 2
    ELSE IF (n - 1) \div 65536 <= 65535 THEN 4
    ELSE 8

\* Numbers of variants around the thresholds of the discriminant width.
VariantCounts == {0, 1, 2, 255, 256, 257, 65535, 65536, 65537}

FieldSum(fields) == SumSeq([i \in 1..Len(fields) |-> fields[i].size])

\* The greatest element of a set of sizes, 0 for the empty set.
MaxOver(sizes) == IF sizes = {} THEN 0 ELSE CHOOSE m \in sizes : \A x \in sizes : x <= m

\* C16: for every aggregate layout, size = discr_size + the maximum over its
\* variants of the sum of that variant's field sizes (0 for a variant without
\* fields).
C16_AggregateSize ==
    \A r \in ArenaAggregates :
        r.size = r.discr_size
                 + MaxOver({FieldSum(r.variants[v]) : v \in 1..Len(r.variants)})

\* The arena holds the layout of Option<u8> (a tag and the larger of 0 and 1
\* bytes) and that of a tuple of three fields of 5, 2 and 16 bytes.
C16_Witness ==
    /\ \E r \in ArenaAggregates :
          r.discr_size = 1 /\ r.size = 2 /\ Len(r.variants) = 2 /\ r.variants[1] = <<>>
    /\ \E r \in ArenaAggregates :
          r.discr_size = 0 /\ r.size = 23 /\ Len(r.variants[1]) = 3

\* The calls of ty_to_repr in the history that returned a layout.
LayoutCalls(log) ==
    {i \in 1..Len(log) : log[i].call = "ty_to_repr" /\ log[i].err = "none"}

\* C18: every call of ty_to_repr(T) on one interpreter returns the same
\* layout reference for the same monomorphised type T, and an entry of the
\* layout cache is never replaced or removed once inserted (nor is a layout
\* of the arena).
C18_LayoutsImmortal ==
    [][/\ \A i, j \in LayoutCalls(layout_log') :
             layout_log'[i].ty = layout_log'[j].ty => layout_log'[i].ref = layout_log'[j].ref
       /\ \A e \in repr_cache : e \in repr_cache'
       /\ \A e1, e2 \in repr_cache' : e1.ty = e2.ty => e1 = e2
       /\ SubSeq(repr_arena', 1, Len(repr_arena)) = repr_arena]_vars

\* ty_to_repr was called on a type, then on another, then on the first again,
\* and returned the first layout; the arena holds the two layouts.
C18_Witness ==
    /\ Len(layout_log) = 3
    /\ LayoutCalls(layout_log) = {1, 2, 3}
    /\ layout_log[1].ty = layout_log[3].ty
    /\ layout_log[1].ty # layout_log[2].ty
    /\ layout_log[1].ref = layout_log[3].ref
    /\ layout_log[1].ref # layout_log[2].ref
    /\ Len(repr_arena) = 2

\* The layouts of the locals of the top frame.
TopLayouts == {lvalue_repr(Self, lv) : lv \in LocalLvalues}

\* Field i of every variant of the aggregate r starts where the fields before
\* it end.
FieldsContiguous(r) ==
    \A v \in 1..Len(r.variants) :
        \A i \in 1..Len(r.variants[v]) :
            r.variants[v][i].offset = FieldSum(SubSeq(r.variants[v], 1, i - 1))

\* run is at a call of the intrinsic size_of.
AtSizeOf == AtIntrinsicCall /\ Term.func.def_id.name = "size_of"

\* The type argument of the size_of call run is at, monomorphized.
SizeOfArg == monomorphize(Self, func_ty(Self, Term.func).substs.types[1])

\* C17: within every variant of every aggregate layout, field i has offset
\* equal to the sum of the sizes of fields 0..i-1 of that variant (no
\* padding); in particular the layout of (u8, u32) has size 5 and offsets 0
\* and 1, and size_of::<(u8, u32)>() writes 5.
C17_FieldOffsets ==
    [][/\ Running =>
            \A r \in TopLayouts : r.k = "Aggregate" => FieldsContiguous(r)
       /\ ty_to_repr(PairU8U32, EmptySubsts)
            = ReprAggregate(0, 5, << <<FieldRepr(0, 1), FieldRepr(1, 4)>> >>)
       /\ (AtSizeOf /\ last_result' = "none") =>
            /\ LEVal(BytesAt(memory', Unwrap(TopFrame.return_ptr),
                             DestSize(LvReturnPointer)))
                 = ReprSize(ty_to_repr(SizeOfArg, EmptySubsts))
            /\ SizeOfArg = PairU8U32 =>
                 LEVal(BytesAt(memory', Unwrap(TopFrame.return_ptr), POINTER_SIZE)) = 5]_vars

\* size_of::<(u8, u32)>() has written 5 to its destination, in a frame that
\* has a local of three fields at offsets 0, 5 and 7.
C17_Witness ==
    /\ last_step.k = "Call"
    /\ last_step.func.def_id.name = "size_of"
    /\ last_step.func.substs.types = <<PairU8U32>>
    /\ last_result = "none"
    /\ LEVal(BytesAt(memory, DestPtr(Unwrap(last_step.destination)[1]), POINTER_SIZE)) = 5
    /\ \E r \in TopLayouts :
          /\ r.k = "Aggregate"
          /\ Len(r.variants) = 1
          /\ Len(r.variants[1]) = 3
          /\ r.variants[1][2].offset = 5
          /\ r.variants[1][3].offset = 7
(***************************************************************************)
(* Memory on its own: one interpreter's Memory taking operations drawn     *)
(* from small sets, as Interpreter's evaluators and intrinsics call them   *)
(* (spec.md section 4.1; memory.rs is not among the sources).              *)
(***************************************************************************)
\* The Memory operations made in one behaviour, allocate apart.
MaxMemOps == 2

\* The sizes of the allocations, in the order they are made.
AllocSizes == <<17, 9>>

\* The pointers the operations take: slots that overlap (offsets 0 and 1),
\* slots that do not (0 and 8), and a slot of the second allocation.
MemPtrs == {Pointer(0, 0), Pointer(0, 1), Pointer(0, 8), Pointer(1, 0)}

\* The pointers write_ptr stores.
PtrValues == {Pointer(0, 0), Pointer(1, 256)}

\* The integers write_uint stores, each with its width.
UintValues == {[v |-> 258, size |-> 4], [v |-> 1, size |-> 1]}

\* The widths read_uint reads.
UintWidths == {1, 4}

\* The byte counts copy takes: one pointer slot, and one byte more.
CopySizes == {POINTER_SIZE, POINTER_SIZE + 1}

\* Every pointer slot of mem stores an offset below 2^24: the three high
\* bytes of the slot are zero.
OffsetsFit(mem) ==
    \A id \in 0..(Len(mem.allocs) - 1) :
        \A r \in AllocOf(mem, id).relocations :
            \A i \in 4..POINTER_SIZE :
                r.off + i <= Len(AllocOf(mem, id).bytes) =>
                    AllocOf(mem, id).bytes[r.off + i] = 0

MemAlive ==
    /\ status = "new"
    /\ mem_op.n < MaxMemOps

\* What an operation leaves: the memory, and its entry in the history.
AfterMemOp(mem, op) ==
    /\ OffsetsFit(mem)
    /\ memory' = mem
    /\ mem_op' = op
    /\ UNCHANGED <<place, pointer_size, overflow_checks, entry, return_ptr, stack, substs_stack, mir_cache, cstore_log, status, error,
                   current_block, stmt_idx, pending_calls, call_substs, local_allocs, last_step, last_result,
                   layout_vars, printer>>

\* allocate(n)
MemAllocate ==
    /\ status = "new"
    /\ Len(memory.allocs) < Len(AllocSizes)
    /\ LET n == AllocSizes[Len(memory.allocs) + 1]
           r == allocate(memory, n)
       IN  AfterMemOp(r.mem, MemOp("allocate", r.ptr, Pointer(0, 0), 0, n, "none",
                                   r.ptr, 0, mem_op.n))

\* write_ptr(p, q)
MemWritePtr ==
    /\ MemAlive
    /\ \E p \in MemPtrs, q \in PtrValues :
          LET r == write_ptr(memory, p, q)
          IN  AfterMemOp(r.mem, MemOp("write_ptr", p, q, 0, POINTER_SIZE, r.err,
                                      Pointer(0, 0), 0, mem_op.n + 1))

\* write_uint(p, v, size)
MemWriteUint ==
    /\ MemAlive
    /\ \E p \in MemPtrs, u \in UintValues :
          LET r == write_uint(memory, p, u.v, u.size)
          IN  AfterMemOp(r.mem, MemOp("write_uint", p, Pointer(0, 0), u.v, u.size, r.err,
                                      Pointer(0, 0), 0, mem_op.n + 1))

\* copy(src, dest, size)
MemCopy ==
    /\ MemAlive
    /\ \E src \in MemPtrs, dest \in MemPtrs, size \in CopySizes :
          LET r == copy(memory, src, dest, size)
          IN  AfterMemOp(r.mem, MemOp("copy", dest, src, 0, size, r.err,
                                      Pointer(0, 0), 0, mem_op.n + 1))

\* read_uint(p, size)
MemReadUint ==
    /\ MemAlive
    /\ \E p \in MemPtrs, size \in UintWidths :
          LET r == read_uint(memory, p, size)
          IN  AfterMemOp(memory, MemOp("read_uint", p, Pointer(0, 0), 0, size, r.err,
                                       Pointer(0, 0), r.val, mem_op.n + 1))

\* read_ptr(p)
MemReadPtr ==
    /\ MemAlive
    /\ \E p \in MemPtrs :
          LET r == read_ptr(memory, p)
          IN  AfterMemOp(memory, MemOp("read_ptr", p, Pointer(0, 0), 0, POINTER_SIZE, r.err,
                                       r.val, 0, mem_op.n + 1))

\* One interpreter whose Memory takes operations.
MemoryInit ==
    /\ entry = Def("sizes", 0)
    /\ NewInterpreter

MemoryNext ==
    \/ MemAllocate
    \/ MemWritePtr
    \/ MemWriteUint
    \/ MemCopy
    \/ MemReadUint
    \/ MemReadPtr

MemorySpec == MemoryInit /\ [][MemoryNext]_vars

\* Memory keeps every stored offset within OffsetsFit.
MemoryTypeOK == OffsetsFit(memory)

(***************************************************************************)
(* Relocation fidelity and pointer-byte disjointness.                      *)
(***************************************************************************)
\* The pointer-sized slots of mem: every in-bounds place of a pointer.
SlotPtrs(mem) ==
    UNION {{Pointer(id, o) : o \in 0..(Len(AllocOf(mem, id).bytes) - POINTER_SIZE)} :
            id \in 0..(Len(mem.allocs) - 1)}

\* The slot s of mem holds a pointer.
HoldsPtr(mem, s) == read_ptr(mem, s).err = "none"

\* The operation op wrote bytes of the slot s.
WroteOver(op, s) ==
    /\ op.k \in {"write_ptr", "write_uint", "copy"}
    /\ op.err = "none"
    /\ s.alloc_id = op.p.alloc_id
    /\ s.offset < op.p.offset + op.size
    /\ op.p.offset < s.offset + POINTER_SIZE

\* The slots of the source range of the copy op that hold a pointer.
CopiedSlots(mem, op) ==
    {s \in SlotPtrs(mem) :
        /\ s.alloc_id = op.q.alloc_id
        /\ s.offset >= op.q.offset
        /\ s.offset + POINTER_SIZE <= op.q.offset + op.size
        /\ HoldsPtr(mem, s)}

\* The place in the destination of the copy op of the source slot s.
CopiedTo(op, s) == Pointer(op.p.alloc_id, s.offset - op.q.offset + op.p.offset)

\* The destination of the copy op starts inside its source range, after the
\* start of it.
OverlapsAhead(op) ==
    /\ op.p.alloc_id = op.q.alloc_id
    /\ op.q.offset < op.p.offset
    /\ op.p.offset < op.q.offset + op.size

\* write_ptr(p, q) then read_ptr(p) gives q, and an operation that does not
\* write over a slot leaves the pointer it holds.
WrittenPtrStays ==
    /\ (mem_op'.k = "write_ptr" /\ mem_op'.err = "none") =>
          read_ptr(memory', mem_op'.p) = [err |-> "none", val |-> mem_op'.q]
    /\ \A s \in SlotPtrs(memory) :
          (HoldsPtr(memory, s) /\ ~WroteOver(mem_op', s)) =>
              read_ptr(memory', s) = read_ptr(memory, s)

CoveredByRelocation(mem, p, size) ==
    /\ HasAlloc(mem, p.alloc_id)
    /\ \E r \in AllocOf(mem, p.alloc_id).relocations :
          \E b \in p.offset..(p.offset + size - 1) :
              r.off <= b /\ b < r.off + POINTER_SIZE

\* mem has a relocation entry at p's offset.
RelocationAt(mem, p) ==
    /\ HasAlloc(mem, p.alloc_id)
    /\ \E r \in AllocOf(mem, p.alloc_id).relocations : r.off = p.offset

\* C20: read_uint(p, w) fails whenever a byte of [p, p + w) is covered by a
\* relocation, read_ptr(p) fails when there is no relocation entry at p's
\* offset (ReadPointerAsBytes when the slot is in bounds), and neither
\* failing read changes memory.
C20_PointerByteDisjoint ==
    [][/\ (mem_op'.k = "read_uint" /\ mem_op'.n = mem_op.n + 1
            /\ CoveredByRelocation(memory, mem_op'.p, mem_op'.size)) =>
             /\ mem_op'.err # "none"
             /\ InBounds(memory, mem_op'.p, mem_op'.size) =>
                   mem_op'.err = "ReadBytesAsPointer"
       /\ (mem_op'.k = "read_ptr" /\ mem_op'.n = mem_op.n + 1
            /\ ~RelocationAt(memory, mem_op'.p)) =>
             /\ mem_op'.err # "none"
             /\ InBounds(memory, mem_op'.p, POINTER_SIZE) =>
                   mem_op'.err = "ReadPointerAsBytes"
       /\ (mem_op'.k \in {"read_uint", "read_ptr"} /\ mem_op'.n = mem_op.n + 1
            /\ mem_op'.err # "none") =>
             memory' = memory]_vars

\* An integer read of one byte has failed over the last byte of a pointer
\* slot that starts before it.
C20_Witness ==
    /\ mem_op.k = "read_uint"
    /\ mem_op.err = "ReadBytesAsPointer"
    /\ mem_op.size = 1
    /\ ~RelocationAt(memory, mem_op.p)
    /\ CoveredByRelocation(memory, mem_op.p, mem_op.size)

\* C21: after any sequence of allocate, write_ptr, write_uint and copy, no
\* two relocation entries of an allocation claim overlapping byte ranges
\* [o, o + pointer_size).
C21_RelocationsDisjoint ==
    \A id \in 0..(Len(memory.allocs) - 1) :
        \A r1, r2 \in AllocOf(memory, id).relocations :
            r1.off < r2.off => r1.off + POINTER_SIZE <= r2.off

(***************************************************************************)
(* Literals, the MIR cache, the statements of a block, projections.        *)
(***************************************************************************)
\* The operand op is a literal const_to_ptr and eval_operand_and_repr do not
\* evaluate: a string, a byte string, a float, an item reference.
UnsupportedLiteral(op) ==
    /\ op.k = "Constant"
    /\ \/ op.lit = "Item"
       \/ op.value.k \in {"Str", "ByteStr", "Float"}

\* The statement about to run assigns the value of an unsupported literal.
AtUnsupportedLiteral ==
    /\ AtStatement
    /\ Stmt.rv.k = "Use"
    /\ UnsupportedLiteral(Stmt.rv.op)

\* C22: evaluating a string, byte-string, float or item-reference literal
\* never yields a pointer: run returns the error Unimplemented for it, the
\* statement writes nothing, and nothing more is executed.
C22_LiteralUnimplemented ==
    [][AtUnsupportedLiteral =>
          /\ status' = "err"
          /\ error' = "Unimplemented"
          /\ memory' = memory]_vars

\* What the code does with such a literal: the interpreter aborts.
LiteralPanics ==
    [][AtUnsupportedLiteral => (status' = "panic" /\ memory' = memory)]_vars

(***************************************************************************)
(* load_mir on its own: one interpreter answering requests for the MIR of  *)
(* items, as the Call terminator makes them.                               *)
(***************************************************************************)
\* The load_mir calls made in one behaviour.
MaxLoads == 4

\* The items asked for: items of this crate, two of another crate, and one
\* of another crate the crate store has no MIR for.
LoadRequests ==
    {Def(name, n) : name \in {"arith", "call"}, n \in 0..MaxInput}
        \cup {Def("add_one", 0), Def("id", 0), Def("lost", 0)}

\* The load_mir calls made so far.
LoadsMade == IF last_step.k = "load_mir" THEN last_step.n ELSE 0

\* One call of load_mir(def_id); the history keeps the handle it returned and
\* whether the cache held the item before.
LoadMir ==
    /\ status = "new"
    /\ LoadsMade < MaxLoads
    /\ \E def_id \in LoadRequests :
          LET r == load_mir(Self, def_id) IN
          /\ SetInterp(r.st)
          /\ last_result' = r.err
          /\ last_step' = [k |-> "load_mir", def_id |-> def_id, mir |-> r.val,
                           hit |-> IsSome(mir_cache_get(mir_cache, def_id)),
                           n |-> LoadsMade + 1]
          /\ status' = IF r.err = "panic" THEN "panic" ELSE status
          /\ error' = IF r.err = "panic" THEN "panic" ELSE error
    /\ UNCHANGED <<place, pointer_size, overflow_checks, entry, return_ptr, current_block, stmt_idx, pending_calls, call_substs, local_allocs,
                   layout_vars, mem_op, printer>>

\* One interpreter answering load_mir calls.
MirInit ==
    /\ entry = Def("call", 0)
    /\ NewInterpreter

MirNext == LoadMir

MirSpec == MirInit /\ [][MirNext]_vars

\* The number of reads of the crate store made for def_id.
StoreReads(log, def_id) == Cardinality({i \in 1..Len(log) : log[i] = def_id})

\* C23: across any sequence of load_mir calls, the crate store is read at
\* most once for a non-local def_id, on the first miss; every later call for
\* it returns the Owned handle of the Rc the cache holds, and reads nothing;
\* a local def_id is served as a Ref handle and never enters the cache.
C23_MirCache ==
    [][/\ \A e \in mir_cache : e \in mir_cache'
       /\ \A e \in mir_cache' : ~is_local(e.def_id) /\ StoreReads(cstore_log', e.def_id) = 1
       /\ \A i \in 1..Len(cstore_log') : StoreReads(cstore_log', cstore_log'[i]) = 1
       /\ (last_step'.k = "load_mir" /\ last_result' = "none") =>
             IF is_local(last_step'.def_id)
             THEN /\ last_step'.mir.kind = "Ref"
                  /\ mir_cache' = mir_cache
                  /\ cstore_log' = cstore_log
             ELSE /\ last_step'.mir.kind = "Owned"
                  /\ [def_id |-> last_step'.def_id, rc |-> last_step'.mir.rc] \in mir_cache'
                  /\ last_step'.mir.body = MirBody(last_step'.def_id)
                  /\ IF \E e \in mir_cache : e.def_id = last_step'.def_id
                     THEN mir_cache' = mir_cache /\ cstore_log' = cstore_log
                     ELSE cstore_log' = Append(cstore_log, last_step'.def_id)]_vars

\* The third call of load_mir has served `id` from the cache: both items of
\* the other crate were read from the store once, `id` first.
C23_Witness ==
    /\ last_step.k = "load_mir"
    /\ last_step.n = 3
    /\ last_step.hit
    /\ last_step.def_id = Def("id", 0)
    /\ last_step.mir = CachedMir("Owned", Def("id", 0), 1, MirBody(Def("id", 0)))
    /\ cstore_log = <<Def("id", 0), Def("add_one", 0)>>
    /\ Cardinality(mir_cache) = 2

(***************************************************************************)
(* The driver's printing of the result.                                    *)
(***************************************************************************)
\* The allocations of mem that the allocations of ids point to.
PointedTo(mem, ids) ==
    {r.id : r \in UNION {AllocOf(mem, id).relocations : id \in ids}}

RECURSIVE ReachableFrom(_, _)
\* The allocations reachable from those of ids through relocations.
ReachableFrom(mem, ids) ==
    IF PointedTo(mem, ids) \subseteq ids THEN ids
    ELSE ReachableFrom(mem, ids \cup PointedTo(mem, ids))

\* The driver has printed the result allocation and all that is reachable
\* from it.
PrintedAll ==
    /\ printer.status = "done"
    /\ IsSome(return_ptr) =>
          {printer.out[i] : i \in 1..Len(printer.out)}
              = ReachableFrom(memory, {Unwrap(return_ptr).alloc_id})

\* C24: after a run completes, the driver prints the result allocation and
\* every allocation reachable from it through relocations, and the printing
\* comes to its end, whatever memory the program left.
C24_PrintingTerminates == (status = "ok") ~> PrintedAll

\* print_allocation_tree has outgrown the process stack.
PrintOverflows == printer.status = "overflow"

\* Some allocation reachable from the result points, through relocations,
\* back to itself.
ResultHasCycle ==
    /\ IsSome(return_ptr)
    /\ \E id \in ReachableFrom(memory, {Unwrap(return_ptr).alloc_id}) :
          id \in ReachableFrom(memory, PointedTo(memory, {id}))

\* Without such a cycle the printing does come to its end.
PrintingEndsWithoutCycle == (status = "ok" /\ ~ResultHasCycle) ~> PrintedAll

(***************************************************************************)
(* The statements and the terminator of a block.                           *)
(***************************************************************************)
TerminatorKinds ==
    {"Return", "Goto", "If", "SwitchInt", "Switch", "Call", "Drop", "Resume"}

\* C25: within one visit of a block, run executes the statements in their
\* order, each once: the step taken at statement i is that statement, and on
\* success run is at statement i + 1 of the same block of the same frame; a
\* failure ends run; the terminator is evaluated only with every statement
\* of the block done, and it is the block's terminator.
C25_StatementsInOrder ==
    [][/\ AtStatement =>
             /\ last_step' = [k |-> "Statement", lv |-> BlockData.statements[stmt_idx + 1].lv,
                              rv |-> BlockData.statements[stmt_idx + 1].rv]
             /\ IF last_result' = "none"
                THEN /\ stmt_idx' = stmt_idx + 1
                     /\ current_block' = current_block
                     /\ stack' = stack
                     /\ status' = "running"
                ELSE status' \in {"err", "panic"} /\ last_result' = error'
       /\ (Running /\ last_step'.k \in TerminatorKinds) =>
             /\ stmt_idx = Len(BlockData.statements)
             /\ last_step' = BlockData.terminator
       /\ (Running /\ status' = "running" /\ last_step'.k \in TerminatorKinds) =>
             stmt_idx' = 0]_vars

\* run is at the terminator of a block of three statements or more, and the
\* step taken last is the last statement of that block.
C25_Witness ==
    /\ AtTerminator
    /\ stmt_idx >= 3
    /\ last_step.k = "Statement"
    /\ last_step.lv = BlockData.statements[stmt_idx].lv
    /\ last_step.rv = BlockData.statements[stmt_idx].rv
    /\ last_result = "none"

(***************************************************************************)
(* Aggregates and projections.                                             *)
(***************************************************************************)
\* The interpreter after the step.
SelfNext == Interp(memory', stack', substs_stack', mir_cache', cstore_log')

\* The statement about to run assigns Aggregate(Adt, v, ..) to a place of a
\* multi-variant type.
AtVariantAssign ==
    /\ AtStatement
    /\ Stmt.rv.k = "Aggregate"
    /\ Stmt.rv.kind = "Adt"
    /\ lvalue_repr(Self, Stmt.lv).k = "Aggregate"
    /\ lvalue_repr(Self, Stmt.lv).discr_size > 0

\* The lvalue P.Downcast(v).Field(i) for the place and the variant of that
\* assignment (i counts from 1).
VariantField(i) ==
    LvProj(LvProj(Stmt.lv, ElemDowncast(Stmt.rv.variant)),
           ElemField(i - 1, lvalue_ty(TopBody, Stmt.lv).ty.variants[Stmt.rv.variant + 1][i]))

\* The layout of field i of the variant assigned.
VariantFieldRepr(i) == lvalue_repr(Self, Stmt.lv).variants[Stmt.rv.variant + 1][i]

\* The bytes of operand i of the statement, as many as its field takes.
OperandBytes(i) ==
    BytesAt(eval_operand(Self, Stmt.rv.ops[i]).st.memory,
            eval_operand(Self, Stmt.rv.ops[i]).val, VariantFieldRepr(i).size)

\* C26: after Aggregate(Adt, v, ops) is assigned to a place P of a
\* multi-variant type, the lvalue P.Downcast(v).Field(i) resolves to
\* P + discr_size + the offset of field i in variant v, and the bytes there
\* are those of operand i.
C26_DowncastFieldIsWrittenField ==
    [][(AtVariantAssign /\ last_result' = "none") =>
          \A i \in 1..Len(Stmt.rv.ops) :
              /\ eval_lvalue(SelfNext, VariantField(i)).err = "none"
              /\ eval_lvalue(SelfNext, VariantField(i)).val
                   = PtrOffset(DestPtr(Stmt.lv),
                               lvalue_repr(Self, Stmt.lv).discr_size
                                   + VariantFieldRepr(i).offset)
              /\ BytesAt(memory', eval_lvalue(SelfNext, VariantField(i)).val,
                         VariantFieldRepr(i).size) = OperandBytes(i)]_vars

\* Shape::Rect(3, 7) has been assigned: the tag 1, then 3 in one byte and 7
\* in four, at offsets 1 and 2 of the place.
C26_Witness ==
    /\ Running
    /\ last_step.k = "Statement"
    /\ last_step.rv.k = "Aggregate"
    /\ last_step.rv.kind = "Adt"
    /\ Len(last_step.rv.ops) = 2
    /\ last_result = "none"
    /\ lvalue_repr(Self, last_step.lv).discr_size = 1
    /\ BytesAt(memory, DestPtr(last_step.lv), 6) = <<1, 3, 7, 0, 0, 0>>

\* The lvalue lv is a Field projection taken directly from a place of a
\* multi-variant type.
FieldOfEnum(lv) ==
    /\ lv.k = "Projection"
    /\ lv.elem.k = "Field"
    /\ lvalue_repr(Self, lv.base).k = "Aggregate"
    /\ lvalue_repr(Self, lv.base).discr_size > 0

\* The statement about to run reads such a field.
AtFieldOfEnum ==
    /\ AtStatement
    /\ Stmt.rv.k = "Use"
    /\ Stmt.rv.op.k = "Consume"
    /\ FieldOfEnum(Stmt.rv.op.lv)

\* C27: a Field projection applied directly to a place of a multi-variant
\* type, with no Downcast before it, resolves to no pointer: eval_lvalue
\* panics, the interpreter aborts, and nothing is read or written.
C27_FieldOfEnumPanics ==
    [][AtFieldOfEnum =>
          /\ eval_lvalue(Self, Stmt.rv.op.lv).err = "panic"
          /\ last_result' = "panic"
          /\ status' = "panic"
          /\ memory' = memory]_vars

\* The interpreter has aborted on the statement that takes field 0 of a
\* Shape, whose variant 0 has such a field.
C27_Witness ==
    /\ status = "panic"
    /\ last_step.k = "Statement"
    /\ last_step.rv.k = "Use"
    /\ last_step.rv.op.k = "Consume"
    /\ last_step.rv.op.lv = LvProj(LvVar(0), ElemField(0, U8))
    /\ lvalue_repr(Self, LvVar(0)).discr_size = 1
    /\ Len(lvalue_repr(Self, LvVar(0)).variants[1]) = 1

\* The statement about to run reads an element of a place laid out as an
\* array, by an Index or ConstantIndex projection.
AtIndexRead ==
    /\ AtStatement
    /\ Stmt.rv.k = "Use"
    /\ Stmt.rv.op.k = "Consume"
    /\ Stmt.rv.op.lv.k = "Projection"
    /\ Stmt.rv.op.lv.elem.k = "Index"
    /\ lvalue_repr(Self, Stmt.rv.op.lv.base).k = "Array"

\* C28: an Index or ConstantIndex projection with index i on a place laid
\* out as Array{elem_size, length} resolves to the base pointer advanced by
\* i * elem_size bytes, in the same allocation.
C28_IndexResolves ==
    [][AtIndexRead =>
          /\ eval_lvalue(Self, Stmt.rv.op.lv).err = "none"
          /\ eval_lvalue(Self, Stmt.rv.op.lv).val
               = PtrOffset(eval_lvalue(Self, Stmt.rv.op.lv.base).val,
                           Stmt.rv.op.lv.elem.i
                               * lvalue_repr(Self, Stmt.rv.op.lv.base).elem_size)
          /\ last_result' = "none"]_vars

\* What the code does with an index projection: the interpreter aborts.
IndexPanics ==
    [][AtIndexRead => (status' = "panic" /\ memory' = memory)]_vars


(***************************************************************************)
(* Constants.                                                              *)
(***************************************************************************)
\* The operands of the statement about to run.
StmtOperands ==
    CASE Stmt.rv.k \in {"Use", "UnaryOp", "Cast"} -> {Stmt.rv.op}
      [] Stmt.rv.k = "BinaryOp" -> {Stmt.rv.l, Stmt.rv.r}
      [] Stmt.rv.k = "Aggregate" -> {Stmt.rv.ops[i] : i \in 1..Len(Stmt.rv.ops)}
      [] OTHER -> {}

\* A literal const_to_ptr has an arm for: an integer (as a number or, when
\* too wide for one, as its bytes) or a boolean.
SupportedConstant(op) ==
    /\ op.k = "Constant"
    /\ op.lit = "Value"
    /\ op.value.k \in {"Integral", "IntegralLE", "Bool"}

\* The allocation const_to_ptr makes for const_val in the interpreter st is
\* the one new allocation of the memory after it, it holds the constant, the
\* pointer returned is its offset 0, and the allocations of st are as before.
FreshConstant(st, const_val) ==
    LET r == const_to_ptr(st, const_val)
        n == Len(st.memory.allocs)
    IN  /\ r.err = "none"
        /\ r.val = Pointer(n, 0)
        /\ Len(r.st.memory.allocs) = n + 1
        /\ SubSeq(r.st.memory.allocs, 1, n) = st.memory.allocs
        /\ CASE const_val.k = "Integral" ->
                   /\ Len(r.st.memory.allocs[n + 1].bytes) = 8
                   /\ LEVal(r.st.memory.allocs[n + 1].bytes) = const_val.v
             [] const_val.k = "IntegralLE" ->
                   /\ Len(r.st.memory.allocs[n + 1].bytes) = 8
                   /\ r.st.memory.allocs[n + 1].bytes = const_val.v
             [] OTHER ->
                   /\ r.st.memory.allocs[n + 1].bytes \in {<<0>>, <<1>>}
                   /\ r.st.memory.allocs[n + 1].bytes[1] = const_val.v

\* C29: every evaluation of a supported constant operand (an integer or a
\* boolean literal) creates exactly one fresh allocation, of 8 bytes holding
\* the integer zero-extended in little-endian order or of 1 byte equal to 0
\* or 1, returns the pointer to its offset 0, and changes no allocation that
\* existed before.
C29_ConstantFreshAllocation ==
    AtStatement =>
        \A op \in StmtOperands :
            SupportedConstant(op) => FreshConstant(Self, op.value)

\* A statement x = Use(c) for an integer literal c > 0 has run over a memory
\* that held allocations already, and the newest allocation holds c.
C29_Witness ==
    /\ last_step.k = "Statement"
    /\ last_step.rv.k = "Use"
    /\ SupportedConstant(last_step.rv.op)
    /\ last_step.rv.op.value.k = "Integral"
    /\ last_step.rv.op.value.v > 0
    /\ last_result = "none"
    /\ Len(memory.allocs) > 1
    /\ LEVal(memory.allocs[Len(memory.allocs)].bytes) = last_step.rv.op.value.v

\* A boolean literal is an operand of the statement about to run.
BoolConstantEvaluated ==
    /\ AtStatement
    /\ \E op \in StmtOperands : SupportedConstant(op) /\ op.value.k = "Bool"

(***************************************************************************)
(* References.                                                             *)
(***************************************************************************)
\* The locals of the current frame as lvalues.
LocalPlaces ==
    LET mir == current_frame(Self).mir.body
    IN  {LvArg(i) : i \in 0..(Len(mir.arg_decls) - 1)}
          \cup {LvVar(i) : i \in 0..(Len(mir.var_decls) - 1)}
          \cup {LvTemp(i) : i \in 0..(Len(mir.temp_decls) - 1)}

\* The slot at the pointer s holds a relocation.
SlotHasRelocation(mem, s) ==
    /\ HasAlloc(mem, s.alloc_id)
    /\ RelocAt(AllocOf(mem, s.alloc_id), s.offset) # {}

\* The statement about to run is d = Ref(lv) and evaluates without error.
AtRef ==
    /\ AtStatement
    /\ Stmt.rv.k = "Ref"
    /\ eval_assignment(Self, Stmt.lv, Stmt.rv).err = "none"

\* C30: after d = Ref(lv) the lvalue Deref(d) resolves to the pointer
\* (allocation and offset) that lv resolved to, and keeps resolving to it over
\* every statement that leaves the allocation of d's slot as it is; Deref of
\* a place whose slot holds no relocation fails and yields no pointer.
C30_RefThenDeref ==
    [][/\ AtRef =>
             /\ eval_lvalue(SelfNext, LvProj(Stmt.lv, ElemDeref)).err = "none"
             /\ eval_lvalue(SelfNext, LvProj(Stmt.lv, ElemDeref)).val
                  = eval_lvalue(Self, Stmt.rv.lv).val
       /\ AtStatement =>
             \A p \in LocalPlaces :
                 LET s == eval_lvalue(Self, p).val IN
                 /\ (/\ SlotHasRelocation(memory, s)
                     /\ AllocOf(memory', s.alloc_id) = AllocOf(memory, s.alloc_id)) =>
                        eval_lvalue(SelfNext, LvProj(p, ElemDeref)).val
                            = eval_lvalue(Self, LvProj(p, ElemDeref)).val
                 /\ ~SlotHasRelocation(memory, s) =>
                        eval_lvalue(Self, LvProj(p, ElemDeref)).err # "none"
       /\ (/\ AtStatement
           /\ Stmt.rv.k = "Use"
           /\ Stmt.rv.op.k = "Consume"
           /\ Stmt.rv.op.lv.k = "Projection"
           /\ Stmt.rv.op.lv.elem.k = "Deref"
           /\ eval_lvalue(Self, Stmt.rv.op.lv.base).err = "none"
           /\ ~SlotHasRelocation(memory, eval_lvalue(Self, Stmt.rv.op.lv.base).val)) =>
              /\ last_result' # "none"
              /\ status' = "err"
              /\ memory' = memory]_vars

\* r = &y has run, *r resolves to y's pointer, and the statement after it
\* read *q for a q never assigned: run has stopped on the error of that read.
C30_Witness ==
    /\ entry.name = "deref"
    /\ status = "err"
    /\ last_step.k = "Statement"
    /\ last_step.rv.k = "Use"
    /\ last_step.rv.op.k = "Consume"
    /\ last_step.rv.op.lv = LvProj(LvVar(2), ElemDeref)
    /\ last_result = "ReadPointerAsBytes"
    /\ eval_lvalue(Self, LvProj(LvVar(1), ElemDeref)).err = "none"
    /\ eval_lvalue(Self, LvProj(LvVar(1), ElemDeref)).val = eval_lvalue(Self, LvVar(0)).val

\* The pointer of a pointer is followed: **t0 has been read and is y.
DerefChainRead ==
    /\ entry.name = "deref"
    /\ entry.n = 2
    /\ last_step.k = "Statement"
    /\ last_step.rv.k = "Use"
    /\ last_step.rv.op.k = "Consume"
    /\ last_step.rv.op.lv = LvProj(LvProj(LvTemp(0), ElemDeref), ElemDeref)
    /\ last_result = "none"
    /\ IsSome(return_ptr)
    /\ read_uint(memory, Unwrap(return_ptr), 1).val = 7

(***************************************************************************)
(* Box.                                                                    *)
(***************************************************************************)
\* The statement about to run is d = Box(T) for a place d that resolves.
AtBox ==
    /\ AtStatement
    /\ Stmt.rv.k = "Box"
    /\ eval_lvalue(Self, Stmt.lv).err = "none"

\* Every allocation of mem is in mem2 under the same identifier, with as
\* many bytes.
AllocationsKept(mem, mem2) ==
    /\ Len(mem2.allocs) >= Len(mem.allocs)
    /\ \A i \in 1..Len(mem.allocs) :
          Len(mem2.allocs[i].bytes) = Len(mem.allocs[i].bytes)

\* C31: each evaluation of d = Box(T) creates exactly one new allocation, of
\* size(T) bytes and distinct from every existing one, and stores in d a
\* pointer to its offset 0 with a relocation at d's offset; no allocation
\* existing before is changed but d's, and no later step, a frame pop
\* included, removes an allocation.
C31_BoxAllocates ==
    [][/\ AtBox =>
             LET d == eval_lvalue(Self, Stmt.lv).val
                 n == Len(memory.allocs)
             IN  /\ last_result' = "none"
                 /\ Len(memory'.allocs) = n + 1
                 /\ Len(memory'.allocs[n + 1].bytes)
                      = ty_size(Stmt.rv.ty, current_substs(Self))
                 /\ memory'.allocs[n + 1].relocations = {}
                 /\ read_ptr(memory', d) = [err |-> "none", val |-> Pointer(n, 0)]
                 /\ [off |-> d.offset, id |-> n]
                      \in AllocOf(memory', d.alloc_id).relocations
                 /\ \A i \in 1..n :
                       i # d.alloc_id + 1 => memory'.allocs[i] = memory.allocs[i]
       /\ AllocationsKept(memory, memory')]_vars

\* boxed has returned and its frame is popped; the allocation its Box made
\* is in the memory, holds the value stored through the box, and the slot of
\* the local b still points to it.
C31_Witness ==
    /\ entry.name = "boxed"
    /\ status = "ok"
    /\ stack = <<>>
    /\ Len(memory.allocs) > 3
    /\ Len(memory.allocs[4].bytes) = 8
    /\ LEVal(memory.allocs[4].bytes) = 40 + entry.n
    /\ read_ptr(memory, Pointer(1, 0)) = [err |-> "none", val |-> Pointer(3, 0)]

(***************************************************************************)
(* Casts.                                                                  *)
(***************************************************************************)
\* The statement about to run is d = Cast(Unsize, op, &[T]) for an operand
\* of type &[T; N]; operand and place resolve.
AtUnsize ==
    /\ AtStatement
    /\ Stmt.rv.k = "Cast"
    /\ Stmt.rv.kind = "Unsize"
    /\ IsSome(pointee_type(operand_ty(Self, Stmt.rv.op)))
    /\ Unwrap(pointee_type(operand_ty(Self, Stmt.rv.op))).k = "array"
    /\ IsSome(pointee_type(Stmt.rv.ty))
    /\ Unwrap(pointee_type(Stmt.rv.ty)).k = "slice"
    /\ eval_operand(Self, Stmt.rv.op).err = "none"
    /\ eval_lvalue(Self, Stmt.lv).err = "none"

\* After the step the place d holds the fat pointer of the pointer at src and
\* the length len: the pointer word with its relocation, then len in a word.
FatPointerAt(d, src, len) ==
    /\ last_result' = "none"
    /\ read_ptr(memory, src).err = "none"
    /\ read_ptr(memory', d) = read_ptr(memory, src)
    /\ read_uint(memory', PtrOffset(d, POINTER_SIZE), POINTER_SIZE)
         = [err |-> "none", val |-> len]

\* The Unsize cast about to run leaves its fat pointer.
UnsizeLeavesFatPointer ==
    FatPointerAt(eval_lvalue(Self, Stmt.lv).val,
                 eval_operand(Self, Stmt.rv.op).val,
                 Unwrap(pointee_type(operand_ty(Self, Stmt.rv.op))).len)

\* C32: an Unsize cast from a pointer to [T; N] to a pointer to [T] leaves
\* the destination as a two-word fat pointer: the first pointer_size bytes
\* are the source pointer word with its relocation, the second word, at
\* offset pointer_size, holds N as an unsigned integer of pointer_size bytes;
\* for every pointer_size of PointerSizes.
C32_UnsizeFatPointer == [][AtUnsize => UnsizeLeavesFatPointer]_vars

\* The same where pointers are eight bytes wide.
UnsizeOnEightByteTarget ==
    [][(AtUnsize /\ pointer_size = 8) => UnsizeLeavesFatPointer]_vars

\* Where pointers are four bytes wide the Unsize cast ends in OutOfBounds.
UnsizeOnFourByteTarget ==
    [][(AtUnsize /\ pointer_size = 4) =>
           /\ last_result' = "OutOfBounds"
           /\ status' = "err"]_vars

\* An Unsize cast has failed where pointers are four bytes wide.
UnsizeFailsOnFourByteTarget ==
    /\ pointer_size = 4
    /\ last_step.k = "Statement"
    /\ last_step.rv.k = "Cast"
    /\ last_step.rv.kind = "Unsize"
    /\ last_result = "OutOfBounds"

\* An Unsize cast has left its fat pointer where pointers are eight bytes
\* wide, and run has returned.
UnsizeDoneOnEightByteTarget ==
    /\ pointer_size = 8
    /\ entry.name = "unsize"
    /\ status = "ok"
    /\ IsSome(return_ptr)
    /\ read_ptr(memory, Unwrap(return_ptr)).err = "none"
    /\ read_uint(memory, PtrOffset(Unwrap(return_ptr), 8), 8).val = entry.n + 2

\* The statement about to run is d = Cast(Misc, op, ty); operand and place
\* resolve.
AtMiscCast ==
    /\ AtStatement
    /\ Stmt.rv.k = "Cast"
    /\ Stmt.rv.kind = "Misc"
    /\ eval_operand(Self, Stmt.rv.op).err = "none"
    /\ eval_lvalue(Self, Stmt.lv).err = "none"

\* The step has copied the 8 bytes at src in the memory mem to d and left
\* every other byte of d's allocation as it was in mem.
CopiedEightBytes(mem, src, d) ==
    LET before == AllocOf(mem, d.alloc_id).bytes
        after == AllocOf(memory', d.alloc_id).bytes
    IN  /\ last_result' = "none"
        /\ BytesAt(memory', d, 8) = BytesAt(mem, src, 8)
        /\ Len(after) = Len(before)
        /\ \A i \in 1..Len(before) :
              (i <= d.offset \/ i > d.offset + 8) => after[i] = before[i]

\* C33: a Misc cast copies exactly 8 bytes from the operand to the
\* destination whatever the widths of the two types; it succeeds only when 8
\* bytes lie inside the allocation from the operand pointer and from the
\* destination pointer, and fails with OutOfBounds otherwise.
C33_MiscCastCopiesEight ==
    [][AtMiscCast =>
          LET src == eval_operand(Self, Stmt.rv.op)
              d == eval_lvalue(Self, Stmt.lv).val
          IN  IF InBounds(src.st.memory, src.val, 8) /\ InBounds(src.st.memory, d, 8)
              THEN CopiedEightBytes(src.st.memory, src.val, d)
              ELSE /\ last_result' = "OutOfBounds"
                   /\ status' = "err"]_vars

\* A Misc cast of a 4-byte constant to u64 has copied the 8 bytes of the
\* constant's allocation: types of different widths, and the cast succeeded.
C33_Witness ==
    /\ last_step.k = "Statement"
    /\ last_step.rv.k = "Cast"
    /\ last_step.rv.kind = "Misc"
    /\ last_step.rv.op = CInt(5, U32)
    /\ last_step.rv.ty = U64
    /\ last_result = "none"
    /\ LEVal(BytesAt(memory, Unwrap(current_frame(Self).return_ptr), 8)) = 5

\* A Misc cast has failed for want of 8 bytes at the operand.
MiscCastShortOperand ==
    /\ last_step.k = "Statement"
    /\ last_step.rv.k = "Cast"
    /\ last_step.rv.kind = "Misc"
    /\ last_step.rv.op = Var0
    /\ last_result = "OutOfBounds"

\* A Misc cast has failed for want of 8 bytes at the destination.
MiscCastShortDestination ==
    /\ last_step.k = "Statement"
    /\ last_step.rv.k = "Cast"
    /\ last_step.rv.kind = "Misc"
    /\ last_step.rv.ty = U8
    /\ last_result = "OutOfBounds"

(***************************************************************************)
(* copy_nonoverlapping.                                                    *)
(***************************************************************************)
\* The pointers the arguments of the copy_nonoverlapping call run is at hold,
\* the bytes of its count, and the size of its element type.
CopySrc == read_ptr(memory, eval_operand(Self, Term.args[1]).val)
CopyDst == read_ptr(memory, eval_operand(Self, Term.args[2]).val)
CopyCount == get_bytes(memory, eval_operand(Self, Term.args[3]).val, POINTER_SIZE)
CopyElemSize == ty_size(Term.func.substs.types[1], current_substs(Self))

\* run is at a call of copy_nonoverlapping whose arguments can be read.
AtCopyNonoverlapping ==
    /\ AtIntrinsicCall
    /\ Term.func.def_id.name = "copy_nonoverlapping"
    /\ CopySrc.err = "none"
    /\ CopyDst.err = "none"
    /\ CopyCount.err = "none"

\* The count, read as a signed pointer-sized integer, is negative.
CountNegative == CopyCount.val[POINTER_SIZE] >= 128

\* The count as a number, when it is below 2^16.
CountBelow64K == \A i \in 3..POINTER_SIZE : CopyCount.val[i] = 0
CountValue == LEVal(SubSeq(CopyCount.val, 1, 2))

\* The step has copied n bytes from src to dst and has changed no other byte
\* of the memory, the return pointer's allocation included.
CopiedExactly(src, dst, n) ==
    /\ last_result' = "none"
    /\ BytesAt(memory', dst, n) = BytesAt(memory, src, n)
    /\ Len(memory'.allocs) = Len(memory.allocs)
    /\ \A id \in 0..(Len(memory.allocs) - 1) :
          /\ Len(AllocOf(memory', id).bytes) = Len(AllocOf(memory, id).bytes)
          /\ \A i \in 1..Len(AllocOf(memory, id).bytes) :
                (id # dst.alloc_id \/ i <= dst.offset \/ i > dst.offset + n) =>
                    AllocOf(memory', id).bytes[i] = AllocOf(memory, id).bytes[i]
    /\ IsSome(TopFrame.return_ptr) =>
          (Unwrap(TopFrame.return_ptr).alloc_id # dst.alloc_id =>
              AllocOf(memory', Unwrap(TopFrame.return_ptr).alloc_id)
                  = AllocOf(memory, Unwrap(TopFrame.return_ptr).alloc_id))

\* copy_nonoverlapping with a count that is not negative copies count *
\* size(T) bytes when both ranges lie in their allocations.
CopiesCountElements ==
    (/\ AtCopyNonoverlapping
     /\ ~CountNegative
     /\ CountBelow64K
     /\ InBounds(memory, CopySrc.val, CountValue * CopyElemSize)
     /\ InBounds(memory, CopyDst.val, CountValue * CopyElemSize)) =>
        CopiedExactly(CopySrc.val, CopyDst.val, CountValue * CopyElemSize)

\* copy_nonoverlapping with a negative count copies nothing and fails with
\* OutOfBounds.
NegativeCountFails ==
    (AtCopyNonoverlapping /\ CountNegative) =>
        /\ last_result' = "OutOfBounds"
        /\ status' = "err"
        /\ memory' = memory

\* C34: copy_nonoverlapping(src, dst, n) with n >= 0 copies exactly
\* n * size(T) bytes from src to dst and writes nothing to the return
\* pointer; when the count, read as a signed pointer-sized integer, is
\* negative, no byte is copied and the call fails with OutOfBounds: it does
\* not succeed with a wrapped length.
C34_CopyNonoverlapping == [][CopiesCountElements /\ NegativeCountFails]_vars

\* The half of C34 for counts that are not negative.
CopyOfCountElements == [][CopiesCountElements]_vars

\* What a negative count comes to: where count * size(T) overflows usize, a
\* panic in a build with overflow checks, and in a build without them a copy
\* of the wrapped length, which succeeds when that length is 0.
NegativeCountOutcome ==
    [][(AtCopyNonoverlapping /\ CountNegative) =>
          LET size == usize_mul(CopyCount.val, CopyElemSize) IN
          /\ memory' = memory
          /\ IF size.overflow /\ overflow_checks THEN last_result' = "panic"
             ELSE IF usize_len(size.bytes) = 0 THEN last_result' = "none"
             ELSE last_result' = "OutOfBounds"]_vars

\* copy_nonoverlapping with the count 1 << (usize::BITS - 1) has returned
\* without an error.
NegativeCountSucceeds ==
    /\ entry = Def("memcpy", 2)
    /\ last_step.k = "Call"
    /\ last_step.func.def_id.name = "copy_nonoverlapping"
    /\ last_result = "none"
    /\ status = "running"

\* copy_nonoverlapping has panicked on the overflow of count * size(T).
NegativeCountPanics ==
    /\ entry.name = "memcpy"
    /\ last_step.k = "Call"
    /\ last_step.func.def_id.name = "copy_nonoverlapping"
    /\ status = "panic"

\* copy_nonoverlapping with the count 1 has copied one u16 of two.
OneElementCopied ==
    /\ entry = Def("memcpy", 0)
    /\ status = "ok"
    /\ IsSome(return_ptr)
    /\ BytesAt(memory, Unwrap(return_ptr), 4) = <<7, 1, 0, 0>>

\* ---------------------------------------------------------------------
\* Substitutions, next_block and allocations over calls and returns

\* The substitutions of the call that created the top frame of stk: the empty
\* ones for the entry frame.
SubstsOfCall(stk, hist) ==
    IF Len(stk) <= 1 THEN EmptySubsts ELSE hist[Len(stk) - 1]

\* The step is a Rust call that has pushed the callee's frame and copied the
\* arguments.
CalleePushed == AtRustCall /\ Len(stack') = Len(stack) + 1 /\ last_result' = "none"

\* The locals of the frame on top of stack' have the sizes of the callee's
\* local types under substs.
LocalsSizedUnder(substs) ==
    LET top == stack'[Len(stack')] IN
    \A i \in 1..Len(top.locals) :
        Len(AllocOf(memory', top.locals[i].alloc_id).bytes)
            = ty_size(local_tys(top.mir.body)[i], substs)

\* The callee's i-th local holds the bytes of the call's i-th operand, as many
\* as the operand's type has under substs.
ArgCopiedUnder(i, substs) ==
    LET top == stack'[Len(stack')]
        op == Term.args[i]
        ty == IF op.k = "Consume" THEN lvalue_ty(current_frame(Self).mir.body, op.lv).ty
              ELSE op.ty
        size == ty_size(ty, substs)
        src == eval_operand(Self, op)
    IN  src.err = "none" =>
            BytesAt(memory', top.locals[i], size) = BytesAt(src.st.memory, src.val, size)

\* C35: while run executes, current_substs is the substitutions passed at the
\* call that created the top frame, the empty ones for the entry frame; a call
\* sizes the callee's locals under the callee's substitutions and copies its
\* arguments with the sizes they have under the caller's; after a Return the
\* caller's are in force again.
C35_SubstsFollowFrames ==
    [][/\ Running => current_substs(Self) = SubstsOfCall(stack, call_substs)
       /\ status' = "running" =>
              current_substs(Interp(memory', stack', substs_stack', mir_cache', cstore_log'))
                  = SubstsOfCall(stack', call_substs')
       /\ CalleePushed =>
              /\ LocalsSizedUnder(CalleeOf(Self, Term)[2])
              /\ Term.func.abi = "Rust" =>
                     \A i \in 1..Len(Term.args) : ArgCopiedUnder(i, current_substs(Self))
       /\ (AtReturn /\ Len(stack) >= 2 /\ status' = "running") =>
              current_substs(Interp(memory', stack', substs_stack', mir_cache', cstore_log'))
                  = SubstsOfCall(SubSeq(stack, 1, Len(stack) - 1), call_substs)]_vars

\* wrap::<(u8, u32)> has got its frame back from id::<u8> and has passed its
\* argument of type T to id::<T>, whose frame is on top.
C35_Witness ==
    /\ entry = Def("nest", 1)
    /\ Running
    /\ Len(stack) = 3
    /\ last_step.k = "Call"
    /\ stack[2].next_block = 2
    /\ current_substs(Self) = Substs(None, <<PairU8U32>>)
    /\ BytesAt(memory, stack[3].locals[1], 5) = <<7, 9, 0, 0, 0>>

\* The frames that are on the stack before and after the step.
KeptFrames == 1..(IF Len(stack) < Len(stack') THEN Len(stack) ELSE Len(stack'))

\* The step is a Call terminator with a destination.
AtCallWithDestination == AtTerminator /\ Term.k = "Call" /\ IsSome(Term.destination)

\* The step is a Call terminator without a destination.
AtCallWithoutDestination == AtTerminator /\ Term.k = "Call" /\ ~IsSome(Term.destination)

\* The step is a jump inside the frame.
AtLocalJump == AtTerminator /\ Term.k \in {"Goto", "If", "SwitchInt", "Switch", "Drop"}

\* No frame that stays on the stack gets another next_block.
NextBlocksKept == \A d \in KeptFrames : stack'[d].next_block = stack[d].next_block

\* C36: a frame starts with next_block START_BLOCK, and the next_block of a
\* frame changes only in a step that executes a Call terminator with a
\* destination on top of that frame, to the target of the destination; local
\* jumps and calls without a destination change no next_block, and after a
\* call without a destination, an intrinsic or a callee that has returned,
\* the calling frame goes on at its stored next_block.
C36_NextBlockWrittenByCall ==
    [][/\ \A d \in KeptFrames :
              stack'[d].next_block # stack[d].next_block =>
                  /\ AtCallWithDestination
                  /\ d = Len(stack)
                  /\ stack'[d].next_block = Unwrap(Term.destination)[2]
       /\ Len(stack') > Len(stack) => stack'[Len(stack')].next_block = START_BLOCK
       /\ (AtLocalJump \/ AtCallWithoutDestination) => NextBlocksKept
       /\ (AtCallWithoutDestination /\ Len(stack') = Len(stack) /\ status' = "running") =>
              /\ current_block' = stack[Len(stack)].next_block
              /\ stmt_idx' = 0
       /\ (AtReturn /\ Len(stack) >= 2 /\ status' = "running") =>
              /\ current_block' = stack[Len(stack) - 1].next_block
              /\ stmt_idx' = 0]_vars

\* restart(1) has stored block 1 by its first call, has jumped to block 2 and
\* is back at block 1 after the call without a destination in block 2.
C36_Witness ==
    /\ entry = Def("restart", 1)
    /\ Running
    /\ last_step.k = "Call"
    /\ ~IsSome(last_step.destination)
    /\ current_block = 1
    /\ stack[1].next_block = 1

\* restart(0) is back at START_BLOCK after a call without a destination and
\* with no call before it.
RestartsAtStartBlock ==
    /\ entry = Def("restart", 0)
    /\ Running
    /\ last_step.k = "Call"
    /\ current_block = START_BLOCK

\* restart(2) is back at block 1 after the callee of its call without a
\* destination has returned.
RestartsAfterReturn ==
    /\ entry = Def("restart", 2)
    /\ Running
    /\ last_step.k = "Return"
    /\ current_block = 1

\* The allocations of the locals of a frame.
LocalAllocs(frame) == {frame.locals[i].alloc_id : i \in 1..Len(frame.locals)}

\* The step has pushed a frame.
FramePushed == Len(stack') > Len(stack)

\* C37: no step removes an allocation or changes its identifier or size, and
\* a frame pushed gets locals in allocations that are new, distinct from one
\* another and distinct from those of the locals of every frame pushed
\* before, popped or not; the allocations of the locals of all frames pushed
\* so far exist.
C37_AllocationsNeverReused ==
    [][/\ AllocationsKept(memory, memory')
       /\ \A id \in local_allocs' : HasAlloc(memory', id)
       /\ \A d \in 1..Len(stack') : LocalAllocs(stack'[d]) \subseteq local_allocs'
       /\ FramePushed =>
              LET frame == stack'[Len(stack')] IN
              /\ Cardinality(LocalAllocs(frame)) = Len(frame.locals)
              /\ LocalAllocs(frame) \cap local_allocs = {}
              /\ \A id \in LocalAllocs(frame) : ~HasAlloc(memory, id)]_vars

\* call() has its second callee frame on top after the first was popped: the
\* locals of the three frames pushed are in as many allocations as there
\* are locals.
C37_Witness ==
    /\ entry.name = "call"
    /\ Running
    /\ Len(stack) = 2
    /\ stack[1].next_block = 2
    /\ Len(stack[2].locals) > 0
    /\ Cardinality(local_allocs) = Len(stack[1].locals) + 2 * Len(stack[2].locals)

\* A Box and constants were evaluated, a frame was popped, and all
\* allocations are still there.
BoxKeptAfterPop ==
    /\ entry.name = "boxed"
    /\ status = "ok"
    /\ stack = <<>>
    /\ local_allocs # {}
    /\ Len(memory.allocs) > Cardinality(local_allocs) + 1

\* ---------------------------------------------------------------------
\* Niche-encoded discriminants (librustc_codegen_ssa/mir/place.rs)

\* The widest niche field, in bits.
MaxNicheBits == 2
\* The largest variant index.
MaxVariant == 3

\* An integer constant or result of a type of the given width in bits:
\* const_uint, const_uint_big, intcast without sign and the wrapping sub and
\* add of the builder keep the low bits.
const_uint(bits, value) == value % (2 ^ bits)

\* layout::Variants::Multiple with DiscriminantKind::Niche: niche_bits is the
\* width of the niche field's type (niche_llty), uninhabited the variants
\* whose layout is uninhabited.
NicheLayout(niche_bits, dataful_variant, niche_variants, niche_start, uninhabited) ==
    [niche_bits |-> niche_bits, dataful_variant |-> dataful_variant,
     niche_variants |-> niche_variants, niche_start |-> niche_start,
     uninhabited |-> uninhabited]

\* The variant indices start..=end.
VariantRange(niche_variants) == niche_variants.start..niche_variants.end

\* The ranges niche_variants a niche of the given width has a value for.
NicheRanges(bits) ==
    { r \in [start : 0..MaxVariant, end : 0..MaxVariant] :
          r.start <= r.end /\ r.end - r.start < 2 ^ bits }

\* The layouts with the given niche width, dataful variant and niche_variants:
\* every variant outside niche_variants but the dataful one is uninhabited,
\* and at most one variant of niche_variants is.
LayoutsOf(bits, dataful, range) ==
    { NicheLayout(bits, dataful, range, niche_start,
                  ((0..MaxVariant) \ (VariantRange(range) \cup {dataful})) \cup absent) :
          niche_start \in 0..(2 ^ bits - 1),
          absent \in {{}} \cup {{v} : v \in VariantRange(range) \ {dataful}} }

\* The layouts of enums with a niche.
NicheLayouts ==
    UNION { UNION { LayoutsOf(bits, dataful, range) :
                        dataful \in 0..MaxVariant, range \in NicheRanges(bits) } :
            bits \in 1..MaxNicheBits }

\* The widths in bits of the types cast_to a discriminant is asked in: they
\* hold every variant index.
CastWidths == {bits \in 1..(MaxNicheBits + 1) : 2 ^ bits > MaxVariant}

\* A place with a niche layout: niche is the value in the niche field; the
\* rest is the history of the operation made last.
Place(layout, niche) ==
    [k |-> "place", layout |-> layout, niche |-> niche, op |-> "none",
     variant_index |-> 0, stored |-> FALSE, aborted |-> FALSE, cast_to |-> 0, discr |-> 0]

\* codegen_get_discr with the mutation that compares the niche value itself,
\* not rebased by niche_start.
codegen_get_discr_NoRebase(layout, encoded_discr, cast_to) ==
    LET relative_max == layout.niche_variants.end - layout.niche_variants.start
        is_niche == encoded_discr <= const_uint(layout.niche_bits, relative_max)
    IN  IF is_niche
        THEN const_uint(cast_to, const_uint(cast_to, encoded_discr)
                                     + const_uint(cast_to, layout.niche_variants.start))
        ELSE const_uint(cast_to, layout.dataful_variant)

\* codegen_get_discr, the DiscriminantKind::Niche arm: the discriminant, of
\* the type cast_to, decoded from the value encoded_discr of the niche field.
codegen_get_discr(layout, encoded_discr, cast_to) ==
    LET relative_discr ==
            IF layout.niche_start = 0 THEN encoded_discr
            ELSE const_uint(layout.niche_bits, encoded_discr - layout.niche_start)
        relative_max == layout.niche_variants.end - layout.niche_variants.start
        is_niche == relative_discr <= const_uint(layout.niche_bits, relative_max)
        niche_discr ==
            const_uint(cast_to,
                       (IF relative_max = 0 THEN const_uint(cast_to, 0)
                        ELSE const_uint(cast_to, relative_discr))
                       + const_uint(cast_to, layout.niche_variants.start))
    IN  IF is_niche THEN niche_discr ELSE const_uint(cast_to, layout.dataful_variant)

\* codegen_set_discr on a niche layout: an uninhabited variant aborts, the
\* dataful variant stores nothing, another variant stores its niche value
\* (on arm and aarch64 after a memset of the place to 0, which the store to
\* the niche field follows).
codegen_set_discr(pl, variant_index) ==
    IF variant_index \in pl.layout.uninhabited
    THEN [pl EXCEPT !.op = "set", !.variant_index = variant_index,
                    !.stored = FALSE, !.aborted = TRUE]
    ELSE IF variant_index # pl.layout.dataful_variant
    THEN LET niche_value == variant_index - pl.layout.niche_variants.start
             niche_llval == const_uint(pl.layout.niche_bits,
                                       niche_value + pl.layout.niche_start)
         IN  [pl EXCEPT !.op = "set", !.variant_index = variant_index,
                        !.stored = TRUE, !.aborted = FALSE, !.niche = niche_llval]
    ELSE [pl EXCEPT !.op = "set", !.variant_index = variant_index,
                    !.stored = FALSE, !.aborted = FALSE]

\* The state of the interpreter, which codegen does not touch.
interp_vars ==
    <<pointer_size, overflow_checks, entry, return_ptr, memory, stack, substs_stack,
      mir_cache, cstore_log, status, error, current_block, stmt_idx, pending_calls,
      call_substs, local_allocs, last_step, last_result, layout_vars, mem_op, printer>>

\* codegen_set_discr for a variant of the enum.
SetDiscr ==
    /\ place.k = "place"
    /\ \E variant_index \in 0..MaxVariant :
           place' = codegen_set_discr(place, variant_index)
    /\ UNCHANGED interp_vars

\* codegen_get_discr in a type cast_to.
GetDiscr ==
    /\ place.k = "place"
    /\ \E cast_to \in CastWidths :
           place' = [place EXCEPT !.op = "get", !.cast_to = cast_to,
                                  !.discr = codegen_get_discr(place.layout, place.niche,
                                                              cast_to)]
    /\ UNCHANGED interp_vars

\* A place of every niche layout, holding any value in its niche field.
NicheInit ==
    /\ entry = Def("sizes", 0)
    /\ NewInterpreterFor(HostPointerSize, TRUE)
    /\ place \in UNION { {Place(layout, niche) : niche \in 0..(2 ^ layout.niche_bits - 1)} :
                         layout \in NicheLayouts }

NicheNext == SetDiscr \/ GetDiscr

\* The discriminant of a place set and read in any order.
NicheSpec == NicheInit /\ [][NicheNext]_vars

\* The niche values niche_start..=niche_start + n of a layout, wrapping at
\* the width of the niche.
NicheValues(layout) ==
    { (layout.niche_start + k) % (2 ^ layout.niche_bits) :
          k \in 0..(layout.niche_variants.end - layout.niche_variants.start) }

\* The step sets the discriminant to variant v.
SetsVariant(v) == place.k = "place" /\ place'.op = "set" /\ place'.variant_index = v

\* The step reads the discriminant.
ReadsDiscr == place.k = "place" /\ place'.op = "get"

\* C38: on a niche layout of width w, codegen_set_discr for a variant v of
\* niche_variants stores (v - niche_variants.start + niche_start) mod 2^w, if
\* it stores at all, and codegen_get_discr decodes what it stored back to v,
\* wrapping niche ranges included; for the dataful variant it stores nothing;
\* a value outside the niche range decodes to dataful_variant.
C38_NicheRoundTrip ==
    [][/\ \A v \in 0..MaxVariant :
              SetsVariant(v) =>
                  /\ v = place.layout.dataful_variant =>
                         ~place'.stored /\ place'.niche = place.niche
                  /\ (v \in VariantRange(place.layout.niche_variants) /\ place'.stored) =>
                         place'.niche =
                             (v - place.layout.niche_variants.start + place.layout.niche_start)
                                 % (2 ^ place.layout.niche_bits)
                  /\ (v \in VariantRange(place.layout.niche_variants)
                          /\ v # place.layout.dataful_variant
                          /\ v \notin place.layout.uninhabited) => place'.stored
       /\ ReadsDiscr =>
              /\ (place.op = "set" /\ place.stored) => place'.discr = place.variant_index
              /\ place.niche \notin NicheValues(place.layout) =>
                     place'.discr = place.layout.dataful_variant]_vars

\* A variant whose niche value lies past the wrap of the niche range was set
\* and read back.
C38_Witness ==
    /\ place.k = "place"
    /\ place.op = "get"
    /\ place.layout.niche_bits = 2
    /\ place.layout.niche_start = 3
    /\ place.layout.niche_variants = [start |-> 1, end |-> 3]
    /\ place.layout.dataful_variant = 0
    /\ place.stored
    /\ place.variant_index = 3
    /\ place.niche = 1
    /\ place.discr = 3

\* A value outside the niche range was read as the dataful variant.
DatafulDecoded ==
    /\ place.k = "place"
    /\ place.op = "get"
    /\ place.niche \notin NicheValues(place.layout)
    /\ place.discr = place.layout.dataful_variant
    /\ place.layout.dataful_variant \notin VariantRange(place.layout.niche_variants)

\* The dataful variant was set and nothing was stored.
DatafulStoresNothing ==
    /\ place.k = "place"
    /\ place.op = "set"
    /\ place.variant_index = place.layout.dataful_variant
    /\ ~place.stored
====
